---- MODULE Spec2Model ----
(***************************************************************************)
(* State-machine model of the SkiMate realtime core: the location gateway  *)
(* (sessions, pings, friend fan-out) and the chat gateway (rooms, message  *)
(* cache, history, read receipts), over the HOT store (Redis) and the WARM *)
(* store (PostgreSQL).  Every `await` of a handler is a step of its own, so *)
(* handlers of different connections interleave as they do on the event    *)
(* loop and across nodes.                                                   *)
(***************************************************************************)
EXTENDS Integers, Sequences, FiniteSets, TLC

(***************************************************************************)
(* Bounds of the model                                                      *)
(***************************************************************************)
MaxSessions == 2
MaxTime == 3000
MaxSends == 1
MaxCacheSends == 2
MaxReads == 2
MaxPings == 2
MaxJobs == 3
MaxPingRows == 4

(***************************************************************************)
(* Users and connections.  Connections c1 and c2 belong to the same user.  *)
(***************************************************************************)
Users == {1, 2, 3}
Conns == {"c1", "c2", "c3", "c4"}
ConnUser == [c \in Conns |->
               CASE c = "c1" -> 1 [] c = "c2" -> 1 [] c = "c3" -> 2 [] OTHER -> 3]

\* an optional value: a nullable column, an optional payload field
Nothing == << >>
Just(x) == << x >>

\* Date.now() at the first observation, and the step of the wall clock (ms)
Epoch == 1000
ClockStep == 500

VARIABLES
    now,            \* the wall clock, Date.now()
    pc,             \* per connection: the await its running handler is suspended at
    local,          \* per connection: the local variables of the running handler
    ack,            \* per connection: the last acknowledgement returned
    sessions,       \* WARM ski_sessions, in insertion order
    connections,    \* HOT connections:{userId}, a set of socket ids per user
    geo,            \* HOT geo:users, member userId -> position
    locHash,        \* HOT location:{userId}, the hash of the latest ping
    lastPingTimestamps, \* LocationGateway.lastPingTimestamps, socket id -> ms
    queue,          \* the jobs added to the location-pings queue, oldest first
    friendships,    \* WARM friendships: the status of each (userId1, userId2) row
    inbox,          \* per connection: the frames emitted to its socket
    pingLog,        \* per connection: the arrival history of its location:ping frames
    groupMembers,   \* WARM group_members, the member ids of each group
    messages,       \* WARM messages, in insertion order
    cache,          \* HOT chat:{roomId}:messages, head first
    socketRooms,    \* per connection: the Socket.io rooms it has joined
    userRooms,      \* HOT user:{userId}:rooms
    roomMembers,    \* HOT room:{roomId}:members
    typing,         \* HOT typing:{roomId}:{userId} keys
    chatQueue,      \* the jobs added to the chat-persistence queue
    pushLog,        \* per room: the id of the entry pushed last onto its list
    readCount,      \* per message and user: the chat:read calls applied so far
    batchBuffer,    \* LocationPingProcessor.batchBuffer
    locationPings,  \* the rows of location_pings, in insertion order
    flush,          \* per run of flushBatch: its position and its locals
    auth            \* per socket: open or not, handshake token, client.user

vars == << now, pc, local, ack, sessions, connections, geo, locHash,
           lastPingTimestamps, queue, friendships, inbox, pingLog,
           groupMembers, messages, cache, socketRooms, userRooms, roomMembers,
           typing, chatQueue, pushLog, readCount, batchBuffer, locationPings,
           flush, auth >>

persistVars == << batchBuffer, locationPings, flush >>

chatVars == << groupMembers, messages, cache, socketRooms, userRooms, roomMembers,
               typing, chatQueue, pushLog, readCount >>

locVars == << geo, locHash >>
pingVars == << lastPingTimestamps, queue, pingLog >>

\* the (userId1, userId2) pairs that can hold a friendships row, and the
\* FriendshipStatus of a row ("none": there is no such row)
FriendRows == {<<1, 2>>, <<2, 1>>}
FriendshipStatus == {"Pending", "Accepted", "Blocked"}
Positions == {0, 99, 100, 600}

NoPingLog == [t |-> Nothing, throttled |-> FALSE, prev |-> Nothing,
              prevAccepted |-> Nothing]

\* groups, their creators (Group.createdBy) and the chat rooms of the model
Groups == {"g1"}
CreatedBy == [g \in Groups |-> 1]
Contents == {"hi"}

NoLocal == [op |-> "none"]
NoAck == [op |-> "none", success |-> FALSE]

\* mutant: the ids of a direct message in the order given, not sorted
getRoomId_unsorted(groupId, userId1, recipientId) ==
    IF groupId # Nothing THEN Just("group:" \o groupId[1])
    ELSE IF recipientId # Nothing
    THEN Just("dm:" \o ToString(userId1) \o "_" \o ToString(recipientId[1]))
    ELSE Nothing

\* getRoomId: `group:${groupId}`, or `dm:${sortedIds[0]}_${sortedIds[1]}` with
\* sortedIds = [userId1, recipientId].sort(); Nothing when it throws
getRoomId(groupId, userId1, recipientId) ==
    IF groupId # Nothing THEN Just("group:" \o groupId[1])
    ELSE IF recipientId # Nothing
    THEN LET a == userId1
             b == recipientId[1]
             sortedIds == IF a <= b THEN << a, b >> ELSE << b, a >>
         IN Just("dm:" \o ToString(sortedIds[1]) \o "_" \o ToString(sortedIds[2]))
    ELSE Nothing

Rooms ==
    {getRoomId(Just(g), 1, Nothing)[1] : g \in Groups}
        \cup {getRoomId(Nothing, a, Just(b))[1] : a \in Users, b \in Users}

\* the chat state with the given members, WARM messages and HOT lists, and
\* no socket in any room
ChatState(members, rows, lists) ==
    /\ groupMembers = members
    /\ messages = rows
    /\ cache = lists
    /\ socketRooms = [c \in Conns |-> {}]
    /\ userRooms = [u \in Users |-> {}]
    /\ roomMembers = [r \in Rooms |-> {}]
    /\ typing = {}
    /\ chatQueue = << >>
    /\ pushLog = [r \in Rooms |-> Nothing]
    /\ readCount = [k \in {} |-> 0]

\* every group has its creator as only member, no message is stored
NoChat ==
    ChatState([g \in Groups |-> {CreatedBy[g]}], << >>, [r \in Rooms |-> << >>])

\* no connection has a request in progress and nothing is tracked
\* the runs of flushBatch that can be in progress at once: the interval
\* timer does not wait for the run it started
Flushers == {1, 2}
NoFlush == [pc |-> "idle"]

\* the processor after construction: nothing buffered, nothing stored
NoPersister ==
    /\ batchBuffer = << >>
    /\ locationPings = << >>
    /\ flush = [f \in Flushers |-> NoFlush]

\* the tokens a client can present in handshake.auth or handshake.query:
\* none, one that verifyIdToken rejects, one that it accepts
Tokens == {"none", "invalid", "valid"}
Closed == [open |-> FALSE, token |-> "none", user |-> Nothing, ran |-> FALSE]

\* every socket is open and its first message has passed the guard
Authenticated ==
    auth = [c \in Conns |-> [open |-> TRUE, token |-> "valid",
                             user |-> Just(ConnUser[c]), ran |-> TRUE]]

Idle ==
    /\ now = Epoch
    /\ NoPersister
    /\ Authenticated
    /\ pc = [c \in Conns |-> "idle"]
    /\ local = [c \in Conns |-> NoLocal]
    /\ ack = [c \in Conns |-> NoAck]
    /\ sessions = << >>
    /\ connections = [u \in Users |-> {}]
    /\ geo = [u \in Users |-> Nothing]
    /\ locHash = [u \in Users |-> Nothing]
    /\ lastPingTimestamps = [c \in Conns |-> Nothing]
    /\ queue = << >>
    /\ inbox = [c \in Conns |-> {}]
    /\ pingLog = [c \in Conns |-> NoPingLog]

Init ==
    /\ Idle
    /\ friendships = [r \in FriendRows |-> "none"]
    /\ NoChat

\* the wall clock advances
Tick ==
    /\ now + ClockStep <= MaxTime
    /\ now' = now + ClockStep
    /\ UNCHANGED << pc, local, ack, sessions, connections, locVars, pingVars,
                   friendships, inbox, persistVars, auth,
                   chatVars >>

(***************************************************************************)
(* LocationService.startSession / LocationGateway.handleSessionStart       *)
(***************************************************************************)
\* sessionRepository.update({userId, isActive: true}, {isActive: false, endTime})
CloseActiveSessions(rows, userId, t) ==
    [i \in DOMAIN rows |->
        IF rows[i].userId = userId /\ rows[i].isActive
        THEN [rows[i] EXCEPT !.isActive = FALSE, !.endTime = Just(t)]
        ELSE rows[i]]

\* sessionRepository.create({userId, resortId, startTime, isActive: true});
\* flushedVertical and flushedDistance add up what the flushes contributed
NewSession(id, userId, t) ==
    [id |-> id, userId |-> userId, startTime |-> t, endTime |-> Nothing,
     isActive |-> TRUE, totalVertical |-> 0, totalDistance |-> 0, maxSpeed |-> 0,
     flushedVertical |-> 0, flushedDistance |-> 0]

\* first await of startSession: the UPDATE that ends the active sessions
startSession_update(c) ==
    /\ pc[c] = "idle"
    /\ Len(sessions) < MaxSessions
    /\ sessions' = CloseActiveSessions(sessions, ConnUser[c], now)
    /\ pc' = [pc EXCEPT ![c] = "start_save"]
    /\ local' = [local EXCEPT ![c] =
            [op |-> "session:start",
             closed |-> {i \in DOMAIN sessions :
                            sessions[i].userId = ConnUser[c] /\ sessions[i].isActive}]]
    /\ UNCHANGED << now, auth, persistVars, ack, connections, locVars, pingVars, friendships, inbox,
                   chatVars >>

\* second await of startSession: the INSERT of the new session
startSession_save(c) ==
    /\ pc[c] = "start_save"
    /\ LET id == Len(sessions) + 1 IN
        /\ sessions' = Append(sessions, NewSession(id, ConnUser[c], now))
        /\ local' = [local EXCEPT ![c] =
                        [op |-> "session:start", sessionId |-> id, startTime |-> now]]
    /\ pc' = [pc EXCEPT ![c] = "start_track"]
    /\ UNCHANGED << now, auth, persistVars, ack, connections, locVars, pingVars, friendships, inbox,
                   chatVars >>

\* handleSessionStart after startSession returned: SADD connections:{userId}
handleSessionStart_track(c) ==
    /\ pc[c] = "start_track"
    /\ connections' = [connections EXCEPT ![ConnUser[c]] = @ \cup {c}]
    /\ ack' = [ack EXCEPT ![c] = [op |-> "session:start", success |-> TRUE,
                                  sessionId |-> local[c].sessionId,
                                  startTime |-> local[c].startTime]]
    /\ pc' = [pc EXCEPT ![c] = "idle"]
    /\ local' = [local EXCEPT ![c] = NoLocal]
    /\ UNCHANGED << now, auth, persistVars, sessions, locVars, pingVars, friendships, inbox,
                   chatVars >>

\* the INSERT of startSession or the SADD rejects: the catch of
\* handleSessionStart answers { success: false }
handleSessionStart_catch(c) ==
    /\ pc[c] \in {"start_save", "start_track"}
    /\ ack' = [ack EXCEPT ![c] = [op |-> "session:start", success |-> FALSE]]
    /\ pc' = [pc EXCEPT ![c] = "idle"]
    /\ local' = [local EXCEPT ![c] = NoLocal]
    /\ UNCHANGED << now, auth, persistVars, sessions, connections, locVars, pingVars,
                   friendships, inbox, chatVars >>

(***************************************************************************)
(* LocationService.endSession / LocationGateway.handleSessionEnd           *)
(***************************************************************************)
\* sessionRepository.findOne({where: {id: sessionId, userId}})
\* mutant: the lookup by id alone, without the userId of the caller
FindSession_anyOwner(rows, sessionId, userId) ==
    {i \in DOMAIN rows : rows[i].id = sessionId}

FindSession(rows, sessionId, userId) ==
    {i \in DOMAIN rows : rows[i].id = sessionId /\ rows[i].userId = userId}

\* Math.floor((endTime.getTime() - session.startTime.getTime()) / 1000)
DurationSeconds(startTime, endTime) == (endTime - startTime) \div 1000

\* first await of endSession: the lookup; a miss throws and is acknowledged
\* {success: false} by the catch of handleSessionEnd
endSession_find(c, sessionId) ==
    /\ pc[c] = "idle"
    /\ LET found == FindSession(sessions, sessionId, ConnUser[c]) IN
        IF found = {}
        THEN /\ ack' = [ack EXCEPT ![c] = [op |-> "session:end", success |-> FALSE]]
             /\ UNCHANGED << pc, local >>
        ELSE /\ pc' = [pc EXCEPT ![c] = "end_save"]
             /\ local' = [local EXCEPT ![c] =
                    [op |-> "session:end", sessionId |-> sessionId,
                     session |-> sessions[CHOOSE i \in found : TRUE],
                     pinged |-> \E d \in Conns : /\ ConnUser[d] = ConnUser[c]
                                                 /\ pc[d] = "ping_hmset"]]
             /\ UNCHANGED ack
    /\ UNCHANGED << now, auth, persistVars, sessions, connections, locVars, pingVars, friendships,
                   inbox,
                   chatVars >>

\* mutant: the save without session.endTime = endTime
endSession_save_noEndTime(c) ==
    /\ pc[c] = "end_save"
    /\ LET id == local[c].sessionId IN
        /\ sessions' = [sessions EXCEPT ![id] = [@ EXCEPT !.isActive = FALSE]]
        /\ local' = [local EXCEPT ![c] =
                [op |-> "session:end", sessionId |-> id,
                 durationSeconds |->
                    DurationSeconds(local[c].session.startTime, now),
                 pinged |-> local[c].pinged]]
    /\ pc' = [pc EXCEPT ![c] = "end_zrem"]
    /\ UNCHANGED << now, auth, persistVars, ack, connections, locVars, pingVars, friendships, inbox,
                   chatVars >>

\* second await: save of the loaded entity with isActive = false, endTime = now
endSession_save(c) ==
    /\ pc[c] = "end_save"
    /\ LET id == local[c].sessionId IN
        /\ sessions' = [sessions EXCEPT ![id] =
                [@ EXCEPT !.isActive = FALSE, !.endTime = Just(now)]]
        /\ local' = [local EXCEPT ![c] =
                [op |-> "session:end", sessionId |-> id,
                 durationSeconds |->
                    DurationSeconds(local[c].session.startTime, now),
                 pinged |-> local[c].pinged]]
    /\ pc' = [pc EXCEPT ![c] = "end_zrem"]
    /\ UNCHANGED << now, auth, persistVars, ack, connections, locVars, pingVars, friendships, inbox,
                   chatVars >>

\* third await: ZREM geo:users userId
endSession_zrem(c) ==
    /\ pc[c] = "end_zrem"
    /\ geo' = [geo EXCEPT ![ConnUser[c]] = Nothing]
    /\ pc' = [pc EXCEPT ![c] = "end_del"]
    /\ UNCHANGED << now, auth, persistVars, local, ack, sessions, connections, locHash, pingVars,
                   friendships, inbox,
                   chatVars >>

\* fourth await: DEL location:{userId}; the summary is acknowledged
endSession_del(c) ==
    /\ pc[c] = "end_del"
    /\ locHash' = [locHash EXCEPT ![ConnUser[c]] = Nothing]
    /\ ack' = [ack EXCEPT ![c] = [op |-> "session:end", success |-> TRUE,
                                  sessionId |-> local[c].sessionId,
                                  durationSeconds |-> local[c].durationSeconds]]
    /\ pc' = [pc EXCEPT ![c] = "idle"]
    /\ local' = [local EXCEPT ![c] = NoLocal]
    /\ UNCHANGED << now, auth, persistVars, sessions, connections, geo, pingVars, friendships, inbox,
                   chatVars >>

(***************************************************************************)
(* LocationGateway.handleLocationPing / LocationService.processLocationPing *)
(***************************************************************************)
THROTTLE_MS == 1000
PROXIMITY_RADIUS_METERS == 500
PROXIMITY_ALERT_METERS == 100

\* mutant: the window anchored on the latest arrival, throttled or not
LastPing_arrival(c) == IF pingLog[c].t = Nothing THEN 0 ELSE pingLog[c].t[1]

\* const lastPing = this.lastPingTimestamps.get(client.id) ?? 0
LastPing(c) == IF lastPingTimestamps[c] = Nothing THEN 0 ELSE lastPingTimestamps[c][1]

\* the throttle with the window taken in seconds instead of milliseconds
Throttled_seconds(t, lastPing) == t - lastPing < THROTTLE_MS \div 1000

\* if (now - lastPing < this.THROTTLE_MS)
Throttled(t, lastPing) == t - lastPing < THROTTLE_MS

\* great-circle distance of two positions: positions are metres along a line
Distance(p, q) == IF p >= q THEN p - q ELSE q - p

\* the arrival history of location:ping frames on a connection: the latest
\* arrival and its outcome, the arrival before it, and the latest arrival
\* before it that was not throttled
LogPing(log, t, throttled) ==
    [t |-> Just(t), throttled |-> throttled, prev |-> log.t,
     prevAccepted |-> IF log.t # Nothing /\ ~log.throttled THEN log.t
                      ELSE log.prevAccepted]

\* a session:end of the same user that is running remembers that a ping of
\* the user wrote to HOT meanwhile (pinged also starts TRUE when a ping of
\* the user is between its GEOADD and its HMSET as the session:end begins)
NotePing(handlerLocal, handlerPc, sameUser) ==
    IF sameUser /\ handlerPc \in {"end_save", "end_zrem", "end_del"}
    THEN [handlerLocal EXCEPT !.pinged = TRUE]
    ELSE handlerLocal

\* the LocationPing payload: position is the latitude in metres north of the
\* equator, longitude is in degrees, sessionId 0 is the empty string
EmptySessionId == 0
LocationPing(position, sessionId) ==
    [position |-> position, longitude |-> 0, altitude |-> 3000, speed |-> 10,
     accuracy |-> 5, sessionId |-> sessionId]

\* GEOADD refuses a longitude outside [-180, 180] and a latitude outside
\* [-85.05112878, 85.05112878] with an error, which rejects the awaited call
METERS_PER_DEGREE == 111195
GeoaddAccepts(data) ==
    /\ data.longitude >= -180 /\ data.longitude <= 180
    /\ data.position <= 85 * METERS_PER_DEGREE

\* the throttle check, which runs before the first await; an accepted ping
\* goes on to GEOADD geo:users longitude latitude userId, and a GEOADD that
\* is refused ends the handler in its catch
handleLocationPing_throttle(c, data) ==
    /\ pc[c] = "idle"
    /\ IF Throttled(now, LastPing(c))
       THEN /\ ack' = [ack EXCEPT ![c] = [op |-> "location:ping", success |-> FALSE,
                                         throttled |-> TRUE]]
            /\ pingLog' = [pingLog EXCEPT ![c] = LogPing(@, now, TRUE)]
            /\ UNCHANGED << pc, local, geo, lastPingTimestamps >>
       ELSE /\ lastPingTimestamps' = [lastPingTimestamps EXCEPT ![c] = Just(now)]
            /\ pingLog' = [pingLog EXCEPT ![c] = LogPing(@, now, FALSE)]
            /\ IF GeoaddAccepts(data)
               THEN /\ geo' = [geo EXCEPT ![ConnUser[c]] = Just(data.position)]
                    /\ pc' = [pc EXCEPT ![c] = "ping_hmset"]
                    /\ local' = [d \in Conns |->
                            IF d = c
                            THEN [op |-> "location:ping", position |-> data.position,
                                  sessionId |-> data.sessionId,
                                  altitude |-> data.altitude, speed |-> data.speed,
                                  accuracy |-> data.accuracy, timestamp |-> now]
                            ELSE NotePing(local[d], pc[d], ConnUser[d] = ConnUser[c])]
                    /\ UNCHANGED ack
               ELSE /\ ack' = [ack EXCEPT ![c] =
                            [op |-> "location:ping", success |-> FALSE,
                             throttled |-> FALSE]]
                    /\ UNCHANGED << pc, local, geo >>
    /\ UNCHANGED << now, auth, persistVars, sessions, connections, locHash, queue, friendships, inbox,
                   chatVars >>

\* HMSET location:{userId} {...ping} and EXPIRE location:{userId} 300
processLocationPing_hmset(c) ==
    /\ pc[c] = "ping_hmset"
    /\ locHash' = [locHash EXCEPT ![ConnUser[c]] =
            Just([position |-> local[c].position, sessionId |-> local[c].sessionId,
                  accuracy |-> local[c].accuracy, timestamp |-> local[c].timestamp])]
    /\ pc' = [pc EXCEPT ![c] = "ping_enqueue"]
    /\ UNCHANGED << now, auth, persistVars, local, ack, sessions, connections, geo, pingVars,
                   friendships, inbox,
                   chatVars >>

\* locationQueue.add('persist-ping', {...})
processLocationPing_enqueue(c) ==
    /\ pc[c] = "ping_enqueue"
    /\ queue' = Append(queue, [userId |-> ConnUser[c],
                               sessionId |-> local[c].sessionId,
                               position |-> local[c].position,
                               altitude |-> local[c].altitude,
                               speed |-> local[c].speed,
                               accuracy |-> local[c].accuracy,
                               timestamp |-> local[c].timestamp])
    /\ pc' = [pc EXCEPT ![c] = "ping_friendships"]
    /\ UNCHANGED << now, auth, persistVars, local, ack, sessions, connections, locVars,
                   lastPingTimestamps, pingLog, friendships, inbox,
                   chatVars >>

\* a further location:ping frame arrives on the socket while the handler of
\* an earlier ping of the socket is suspended in an awaited call: handlers of
\* one socket are not queued behind each other, so the throttle check of the
\* new frame runs at once and answers { success: false, throttled: true }
handleLocationPing_overtake(c) ==
    /\ pc[c] \in {"ping_hmset", "ping_enqueue", "ping_friendships",
                  "ping_georadius", "ping_emit"}
    /\ Throttled(now, LastPing(c))
    /\ ack' = [ack EXCEPT ![c] = [op |-> "location:ping", success |-> FALSE,
                                  throttled |-> TRUE]]
    /\ pingLog' = [pingLog EXCEPT ![c] = LogPing(@, now, TRUE)]
    /\ UNCHANGED << now, auth, persistVars, pc, local, sessions, connections, locVars,
                   lastPingTimestamps, queue, friendships, inbox, chatVars >>

\* an awaited call of processLocationPing or of the broadcast loop rejects
\* (HMSET, EXPIRE, locationQueue.add, the friendships query, GEORADIUS,
\* SMEMBERS): the catch of handleLocationPing answers { success: false }
handleLocationPing_catch(c) ==
    /\ pc[c] \in {"ping_hmset", "ping_enqueue", "ping_friendships",
                  "ping_georadius", "ping_emit"}
    /\ ack' = [ack EXCEPT ![c] = [op |-> "location:ping", success |-> FALSE,
                                  throttled |-> FALSE]]
    /\ pc' = [pc EXCEPT ![c] = "idle"]
    /\ local' = [local EXCEPT ![c] = NoLocal]
    /\ UNCHANGED << now, auth, persistVars, sessions, connections, locVars, pingVars,
                   friendships, inbox, chatVars >>

\* the friendships query without its status condition
AcceptedRows_anyStatus(rows, userId) ==
    {r \in DOMAIN rows : (r[1] = userId \/ r[2] = userId) /\ rows[r] # "none"}

\* the rows of the friendships query of findNearbyFriends:
\* (f.userId1 = :userId OR f.userId2 = :userId) AND f.status = 'Accepted'
AcceptedRows(rows, userId) ==
    {r \in DOMAIN rows : (r[1] = userId \/ r[2] = userId) /\ rows[r] = "Accepted"}

\* friendships.map((f) => f.userId1 === userId ? f.userId2 : f.userId1)
FriendIds(rows, userId) ==
    {IF r[1] = userId THEN r[2] ELSE r[1] : r \in AcceptedRows(rows, userId)}

\* GEORADIUS geo:users longitude latitude 500 m WITHDIST WITHCOORD
Georadius(index, position) ==
    {[memberId |-> u, distance |-> Distance(index[u][1], position),
      position |-> index[u][1]] :
        u \in {v \in Users : index[v] # Nothing
                 /\ Distance(index[v][1], position) <= PROXIMITY_RADIUS_METERS}}

\* the filter of findNearbyFriends: friendIds.includes(memberId) && memberId !== userId
NearbyFriends(index, position, friendIds, userId) ==
    {[friendId |-> m.memberId, distance |-> m.distance, position |-> m.position] :
        m \in {n \in Georadius(index, position) :
                 n.memberId \in friendIds /\ n.memberId # userId}}

\* the accepted friends of a user as WARM holds them (in either direction)
AcceptedFriendsOf(userId) ==
    {v \in Users : \E r \in FriendRows :
        /\ friendships[r] = "Accepted"
        /\ r \in {<<userId, v>>, <<v, userId>>}}

\* the friendships query of findNearbyFriends; no accepted friend ends the
\* ping with {success: true}
findNearbyFriends_friendships(c) ==
    /\ pc[c] = "ping_friendships"
    /\ LET friendIds == FriendIds(friendships, ConnUser[c]) IN
        IF friendIds = {}
        THEN /\ ack' = [ack EXCEPT ![c] = [op |-> "location:ping", success |-> TRUE,
                                          throttled |-> FALSE]]
             /\ pc' = [pc EXCEPT ![c] = "idle"]
             /\ local' = [local EXCEPT ![c] = NoLocal]
        ELSE /\ pc' = [pc EXCEPT ![c] = "ping_georadius"]
             /\ local' = [local EXCEPT ![c] =
                    [op |-> "location:ping", position |-> local[c].position,
                     friendIds |-> friendIds,
                     acceptedAtQuery |-> AcceptedFriendsOf(ConnUser[c])]]
             /\ UNCHANGED ack
    /\ UNCHANGED << now, auth, persistVars, sessions, connections, locVars, pingVars, friendships,
                   inbox,
                   chatVars >>

\* the radius query, the friend filter and the name lookups of findNearbyFriends
findNearbyFriends_georadius(c) ==
    /\ pc[c] = "ping_georadius"
    /\ local' = [local EXCEPT ![c] =
            [op |-> "location:ping", position |-> local[c].position,
             acceptedAtQuery |-> local[c].acceptedAtQuery,
             nearbyFriends |-> NearbyFriends(geo, local[c].position,
                                             local[c].friendIds, ConnUser[c])]]
    /\ pc' = [pc EXCEPT ![c] = "ping_emit"]
    /\ UNCHANGED << now, auth, persistVars, ack, sessions, connections, locVars, pingVars,
                   friendships, inbox,
                   chatVars >>

\* the location:update frames of a ping: one to every socket id in
\* connections:{friendId}, for every nearby friend
UpdateFrames(c, nearbyFriends, position, acceptedAtQuery) ==
    [d \in Conns |->
        {[type |-> "location:update", userId |-> ConnUser[c], position |-> position,
          accepted |-> ConnUser[c] \in AcceptedFriendsOf(ConnUser[d]),
          acceptedAtQuery |-> ConnUser[d] \in acceptedAtQuery] :
            f \in {g \in nearbyFriends : d \in connections[g.friendId]}}]

\* mutant: the alert also at a distance of exactly 100 m
ProximityFrames_inclusive(c, nearbyFriends, position, acceptedAtQuery) ==
    [d \in Conns |->
        IF d # c THEN {}
        ELSE {[type |-> "location:proximity", friendId |-> f.friendId,
               distance |-> f.distance, position |-> f.position,
               pinger |-> c, pingPosition |-> position,
               acceptedAtQuery |-> f.friendId \in acceptedAtQuery] :
                f \in {g \in nearbyFriends : g.distance <= PROXIMITY_ALERT_METERS}}]

\* the location:proximity frames of a ping: to the sender's own socket, for
\* every nearby friend with friend.distance < 100; each frame remembers the
\* connection and the position of its ping and whether the friend was
\* accepted when the ping queried the friendships
ProximityFrames(c, nearbyFriends, position, acceptedAtQuery) ==
    [d \in Conns |->
        IF d # c THEN {}
        ELSE {[type |-> "location:proximity", friendId |-> f.friendId,
               distance |-> f.distance, position |-> f.position,
               pinger |-> c, pingPosition |-> position,
               acceptedAtQuery |-> f.friendId \in acceptedAtQuery] :
                f \in {g \in nearbyFriends : g.distance < PROXIMITY_ALERT_METERS}}]

\* the broadcast loop of handleLocationPing and its acknowledgement
handleLocationPing_emit(c) ==
    /\ pc[c] = "ping_emit"
    /\ LET updates == UpdateFrames(c, local[c].nearbyFriends, local[c].position,
                                   local[c].acceptedAtQuery)
           alerts == ProximityFrames(c, local[c].nearbyFriends, local[c].position,
                                     local[c].acceptedAtQuery)
       IN inbox' = [d \in Conns |-> inbox[d] \cup updates[d] \cup alerts[d]]
    /\ ack' = [ack EXCEPT ![c] = [op |-> "location:ping", success |-> TRUE,
                                  throttled |-> FALSE]]
    /\ pc' = [pc EXCEPT ![c] = "idle"]
    /\ local' = [local EXCEPT ![c] = NoLocal]
    /\ UNCHANGED << now, auth, persistVars, sessions, connections, locVars, pingVars, friendships,
                   chatVars >>

\* a row of the friendships table is inserted, changes status or is deleted
\* by the owner of the table
SetFriendship(r, status) ==
    /\ friendships[r] # status
    /\ friendships' = [friendships EXCEPT ![r] = status]
    /\ UNCHANGED << now, auth, persistVars, pc, local, ack, sessions, connections, locVars, pingVars,
                   inbox,
                   chatVars >>

(***************************************************************************)
(* ChatService: rooms, access, the message cache                            *)
(***************************************************************************)
MESSAGE_CACHE_SIZE == 50

\* mutant: the membership of the group is not looked up
verifyRoomAccess_anyGroup(userId, groupId, recipientId) ==
    IF groupId # Nothing THEN TRUE
    ELSE IF recipientId # Nothing
    THEN \E r \in FriendRows :
            /\ r \in {<< userId, recipientId[1] >>, << recipientId[1], userId >>}
            /\ friendships[r] = "Accepted"
    ELSE FALSE

\* verifyRoomAccess: the group has the user among its members, or a
\* friendships row with status Accepted joins the user and the recipient
verifyRoomAccess(userId, groupId, recipientId) ==
    IF groupId # Nothing THEN userId \in groupMembers[groupId[1]]
    ELSE IF recipientId # Nothing
    THEN \E r \in FriendRows :
            /\ r \in {<< userId, recipientId[1] >>, << recipientId[1], userId >>}
            /\ friendships[r] = "Accepted"
    ELSE FALSE

\* who takes part in the room of a message: the members of the group, or the
\* two parties of the direct message while their friendship is accepted
Participant(userId, groupId, senderId, recipientId) ==
    IF groupId # Nothing THEN userId \in groupMembers[groupId[1]]
    ELSE /\ recipientId # Nothing
         /\ userId \in {senderId, recipientId[1]}
         /\ senderId \in AcceptedFriendsOf(recipientId[1])

\* Redis list commands: an index below zero counts from the tail
ListIndex(list, i) == IF i < 0 THEN Len(list) + i + 1 ELSE i + 1
Lrange(list, start, stop) ==
    LET from == IF ListIndex(list, start) < 1 THEN 1 ELSE ListIndex(list, start)
        to == IF ListIndex(list, stop) > Len(list) THEN Len(list)
              ELSE ListIndex(list, stop)
    IN IF from > to THEN << >> ELSE SubSeq(list, from, to)
Lpush(list, entry) == << entry >> \o list
Ltrim(list, start, stop) == Lrange(list, start, stop)

\* JSON.stringify({id, senderId, content, metadata, sentAt}) and its parse
\* into a Message in getRecentMessages: groupId, recipientId and readBy are
\* not carried
CacheEntry(message) ==
    [id |-> message.id, senderId |-> message.senderId,
     content |-> message.content, sentAt |-> message.sentAt]

\* Array.prototype.reverse
Reverse(array) == [i \in 1 .. Len(array) |-> array[Len(array) + 1 - i]]

\* the messages of a WARM history query: those of the group, or those
\* exchanged by the two users
QueryMatches(rows, groupId, userId, recipientId) ==
    {i \in DOMAIN rows :
        IF groupId # Nothing THEN rows[i].groupId = groupId
        ELSE IF recipientId # Nothing
        THEN \/ rows[i].senderId = userId /\ rows[i].recipientId = recipientId
             \/ rows[i].senderId = recipientId[1] /\ rows[i].recipientId = Just(userId)
        ELSE TRUE}

\* ORDER BY sentAt DESC; rows with the same sentAt come in either order
ComesBefore(rows, i, j, lowIdFirst) ==
    \/ rows[i].sentAt > rows[j].sentAt
    \/ /\ rows[i].sentAt = rows[j].sentAt
       /\ IF lowIdFirst THEN i < j ELSE i > j

OrderBySentAtDesc(rows, indices, lowIdFirst) ==
    LET ranked == {<< Cardinality({j \in indices :
                                    ComesBefore(rows, j, i, lowIdFirst)}), i >> :
                        i \in indices}
    IN [k \in 1 .. Cardinality(indices) |->
            rows[(CHOOSE p \in ranked : p[1] = k - 1)[2]]]

\* .orderBy('message.sentAt', 'DESC').take(limit).where(...).getMany()
WarmQuery(rows, groupId, userId, recipientId, limit, lowIdFirst) ==
    LET ordered == OrderBySentAtDesc(rows, QueryMatches(rows, groupId, userId,
                                                       recipientId), lowIdFirst)
    IN SubSeq(ordered, 1, IF limit < Len(ordered) THEN limit ELSE Len(ordered))

\* the pipeline of getRecentMessages: LPUSH of every message, LTRIM 0 49
RECURSIVE LpushAll(_, _)
LpushAll(list, array) ==
    IF array = << >> THEN list
    ELSE LpushAll(Lpush(list, CacheEntry(Head(array))), Tail(array))

\* the connections that have joined a Socket.io room
SocketsIn(roomId) == {d \in Conns : roomId \in socketRooms[d]}

\* the messages inserted since the first observation
NewMessages == {i \in DOMAIN messages : messages[i].sentAt >= Epoch}

(***************************************************************************)
(* ChatGateway.handleJoinRoom / handleLeaveRoom                             *)
(***************************************************************************)
\* getRoomId and verifyRoomAccess; a throw or a denial is acknowledged
\* {success: false}
handleJoinRoom_verify(c, payload) ==
    /\ pc[c] = "idle"
    /\ LET roomId == getRoomId(payload.groupId, ConnUser[c], payload.recipientId) IN
        IF roomId # Nothing
           /\ verifyRoomAccess(ConnUser[c], payload.groupId, payload.recipientId)
        THEN /\ pc' = [pc EXCEPT ![c] = "join_track"]
             /\ local' = [local EXCEPT ![c] = [op |-> "chat:join", roomId |-> roomId[1],
                                              payload |-> payload]]
             /\ UNCHANGED ack
        ELSE /\ ack' = [ack EXCEPT ![c] = [op |-> "chat:join", success |-> FALSE]]
             /\ UNCHANGED << pc, local >>
    /\ UNCHANGED << now, auth, persistVars, sessions, connections, locVars, pingVars, friendships,
                   inbox, chatVars >>

\* client.join(roomId), SADD user:{userId}:rooms, SADD room:{roomId}:members
handleJoinRoom_track(c) ==
    /\ pc[c] = "join_track"
    /\ LET roomId == local[c].roomId IN
        /\ socketRooms' = [socketRooms EXCEPT ![c] = @ \cup {roomId}]
        /\ userRooms' = [userRooms EXCEPT ![ConnUser[c]] = @ \cup {roomId}]
        /\ roomMembers' = [roomMembers EXCEPT ![roomId] = @ \cup {ConnUser[c]}]
        /\ ack' = [ack EXCEPT ![c] = [op |-> "chat:join", success |-> TRUE,
                                      roomId |-> roomId]]
    /\ pc' = [pc EXCEPT ![c] = "idle"]
    /\ local' = [local EXCEPT ![c] = NoLocal]
    /\ UNCHANGED << now, auth, persistVars, sessions, connections, locVars, pingVars, friendships,
                   inbox, groupMembers, messages, cache, typing, chatQueue,
                   pushLog, readCount >>

\* client.leave(roomId), SREM of both sets, DEL typing:{roomId}:{userId}
handleLeaveRoom(c, roomId) ==
    /\ pc[c] = "idle"
    /\ socketRooms' = [socketRooms EXCEPT ![c] = @ \ {roomId}]
    /\ userRooms' = [userRooms EXCEPT ![ConnUser[c]] = @ \ {roomId}]
    /\ roomMembers' = [roomMembers EXCEPT ![roomId] = @ \ {ConnUser[c]}]
    /\ typing' = typing \ {<< roomId, ConnUser[c] >>}
    /\ ack' = [ack EXCEPT ![c] = [op |-> "chat:leave", success |-> TRUE]]
    /\ UNCHANGED << now, auth, persistVars, pc, local, sessions, connections, locVars, pingVars,
                   friendships, inbox, groupMembers, messages, cache, chatQueue,
                   pushLog, readCount >>

(***************************************************************************)
(* ChatGateway.handleSendMessage / ChatService.createMessage                *)
(***************************************************************************)
\* messageRepository.create({senderId, content, groupId, recipientId, sentAt})
NewMessage(id, senderId, payload, content, sentAt) ==
    [id |-> id, senderId |-> senderId, groupId |-> payload.groupId,
     recipientId |-> payload.recipientId, content |-> content,
     readBy |-> << >>, sentAt |-> sentAt]

\* getRoomId in handleSendMessage, then messageRepository.save(message)
createMessage_save(c, payload, content) ==
    /\ pc[c] = "idle"
    /\ LET roomId == getRoomId(payload.groupId, ConnUser[c], payload.recipientId)
           access == verifyRoomAccess(ConnUser[c], payload.groupId,
                                      payload.recipientId)
           id == Len(messages) + 1
       IN IF roomId = Nothing
          THEN /\ ack' = [ack EXCEPT ![c] = [op |-> "chat:send", success |-> FALSE,
                                            access |-> access]]
               /\ UNCHANGED << pc, local, messages >>
          ELSE /\ messages' = Append(messages,
                        NewMessage(id, ConnUser[c], payload, content, now))
               /\ pc' = [pc EXCEPT ![c] = "send_lpush"]
               /\ local' = [local EXCEPT ![c] =
                        [op |-> "chat:send", roomId |-> roomId[1], id |-> id,
                         payload |-> payload, access |-> access]]
               /\ UNCHANGED ack
    /\ UNCHANGED << now, auth, persistVars, sessions, connections, locVars, pingVars, friendships,
                   inbox, groupMembers, cache, socketRooms, userRooms, roomMembers,
                   typing, chatQueue, pushLog, readCount >>

\* redis.lpush(cacheKey, messageJson)
createMessage_lpush(c) ==
    /\ pc[c] = "send_lpush"
    /\ cache' = [cache EXCEPT ![local[c].roomId] =
                    Lpush(@, CacheEntry(messages[local[c].id]))]
    /\ pushLog' = [pushLog EXCEPT ![local[c].roomId] = Just(local[c].id)]
    /\ pc' = [pc EXCEPT ![c] = "send_ltrim"]
    /\ UNCHANGED << now, auth, persistVars, local, ack, sessions, connections, locVars, pingVars,
                   friendships, inbox, groupMembers, messages, socketRooms,
                   userRooms, roomMembers, typing, chatQueue, readCount >>

\* redis.ltrim(cacheKey, 0, MESSAGE_CACHE_SIZE - 1)
createMessage_ltrim(c) ==
    /\ pc[c] = "send_ltrim"
    /\ cache' = [cache EXCEPT ![local[c].roomId] =
                    Ltrim(@, 0, MESSAGE_CACHE_SIZE - 1)]
    /\ pc' = [pc EXCEPT ![c] = "send_emit"]
    /\ UNCHANGED << now, auth, persistVars, local, ack, sessions, connections, locVars, pingVars,
                   friendships, inbox, groupMembers, messages, socketRooms,
                   userRooms, roomMembers, typing, chatQueue, pushLog, readCount >>

\* the chat:message frames of a send: one to every socket in the room
MessageFrames(roomId, message) ==
    [d \in Conns |->
        IF d \in SocketsIn(roomId)
        THEN {[type |-> "chat:message", roomId |-> roomId, id |-> message.id,
               senderId |-> message.senderId,
               access |-> Participant(ConnUser[d], message.groupId,
                                      message.senderId, message.recipientId)]}
        ELSE {}]

\* EXPIRE of the list, chatQueue.add, the broadcast to the room, DEL of the
\* sender's typing key, and the acknowledgement
handleSendMessage_emit(c) ==
    /\ pc[c] = "send_emit"
    /\ LET message == messages[local[c].id]
           frames == MessageFrames(local[c].roomId, message)
       IN /\ chatQueue' = Append(chatQueue, message.id)
          /\ inbox' = [d \in Conns |-> inbox[d] \cup frames[d]]
          /\ typing' = typing \ {<< local[c].roomId, ConnUser[c] >>}
          /\ ack' = [ack EXCEPT ![c] = [op |-> "chat:send", success |-> TRUE,
                                        messageId |-> message.id,
                                        sentAt |-> message.sentAt,
                                        roomId |-> local[c].roomId,
                                        access |-> local[c].access]]
    /\ pc' = [pc EXCEPT ![c] = "idle"]
    /\ local' = [local EXCEPT ![c] = NoLocal]
    /\ UNCHANGED << now, auth, persistVars, sessions, connections, locVars, pingVars, friendships,
                   groupMembers, messages, cache, socketRooms, userRooms,
                   roomMembers, pushLog, readCount >>

\* LPUSH, LTRIM, EXPIRE, chatQueue.add or the DEL of the typing key rejects
\* after the insert: the catch of handleSendMessage answers
\* { success: false }; inserted remembers the row the call had saved
handleSendMessage_catch(c) ==
    /\ pc[c] \in {"send_lpush", "send_ltrim", "send_emit"}
    /\ ack' = [ack EXCEPT ![c] = [op |-> "chat:send", success |-> FALSE,
                                  access |-> local[c].access,
                                  inserted |-> local[c].id]]
    /\ pc' = [pc EXCEPT ![c] = "idle"]
    /\ local' = [local EXCEPT ![c] = NoLocal]
    /\ UNCHANGED << now, auth, persistVars, sessions, connections, locVars, pingVars, friendships,
                   inbox, chatVars >>

(***************************************************************************)
(* ChatGateway.handleGetHistory / ChatService.getRecentMessages             *)
(***************************************************************************)
\* messages.map(m => ({id, senderId, content, sentAt})) of the acknowledgement
HistoryAck(result, access, fromWarm) ==
    [op |-> "chat:history", success |-> TRUE,
     messages |-> [i \in 1 .. Len(result) |-> CacheEntry(result[i])],
     access |-> access, fromWarm |-> fromWarm]

\* getRoomId, LRANGE 0 limit-1; a non-empty range is the answer
getRecentMessages_lrange(c, payload, limit) ==
    /\ pc[c] = "idle"
    /\ LET roomId == getRoomId(payload.groupId, ConnUser[c], payload.recipientId)
           access == verifyRoomAccess(ConnUser[c], payload.groupId,
                                      payload.recipientId)
       IN IF roomId = Nothing
          THEN /\ ack' = [ack EXCEPT ![c] = [op |-> "chat:history",
                                            success |-> FALSE, access |-> access]]
               /\ UNCHANGED << pc, local >>
          ELSE LET cachedMessages == Lrange(cache[roomId[1]], 0, limit - 1) IN
               IF Len(cachedMessages) > 0
               THEN /\ ack' = [ack EXCEPT ![c] =
                                HistoryAck(cachedMessages, access, Nothing)]
                    /\ UNCHANGED << pc, local >>
               ELSE /\ pc' = [pc EXCEPT ![c] = "history_query"]
                    /\ local' = [local EXCEPT ![c] =
                            [op |-> "chat:history", roomId |-> roomId[1],
                             payload |-> payload, limit |-> limit,
                             access |-> access]]
                    /\ UNCHANGED ack
    /\ UNCHANGED << now, auth, persistVars, sessions, connections, locVars, pingVars, friendships,
                   inbox, chatVars >>

\* query.getMany(); no row is the answer []
getRecentMessages_query(c) ==
    /\ pc[c] = "history_query"
    /\ \E lowIdFirst \in BOOLEAN :
        LET found == WarmQuery(messages, local[c].payload.groupId, ConnUser[c],
                               local[c].payload.recipientId, local[c].limit,
                               lowIdFirst)
        IN IF Len(found) > 0
           THEN /\ pc' = [pc EXCEPT ![c] = "history_refill"]
                /\ local' = [local EXCEPT ![c] =
                        [op |-> "chat:history", roomId |-> local[c].roomId,
                         messages |-> found, access |-> local[c].access]]
                /\ UNCHANGED ack
           ELSE /\ ack' = [ack EXCEPT ![c] =
                        HistoryAck(found, local[c].access, Just(found))]
                /\ pc' = [pc EXCEPT ![c] = "idle"]
                /\ local' = [local EXCEPT ![c] = NoLocal]
    /\ UNCHANGED << now, auth, persistVars, sessions, connections, locVars, pingVars, friendships,
                   inbox, chatVars >>

\* the pipeline over messages.reverse() (in place), then
\* return messages.reverse() (in place again)
getRecentMessages_refill(c) ==
    /\ pc[c] = "history_refill"
    /\ LET found == local[c].messages
           reversed == Reverse(found)
           returned == Reverse(reversed)
       IN /\ cache' = [cache EXCEPT ![local[c].roomId] =
                        Ltrim(LpushAll(@, reversed), 0, MESSAGE_CACHE_SIZE - 1)]
          /\ ack' = [ack EXCEPT ![c] =
                        HistoryAck(returned, local[c].access, Just(found))]
    /\ pc' = [pc EXCEPT ![c] = "idle"]
    /\ local' = [local EXCEPT ![c] = NoLocal]
    /\ UNCHANGED << now, auth, persistVars, sessions, connections, locVars, pingVars, friendships,
                   inbox, groupMembers, messages, socketRooms, userRooms,
                   roomMembers, typing, chatQueue, pushLog, readCount >>

\* the answer of a chat:history request served without interruption
getRecentMessages(lists, rows, groupId, userId, recipientId, limit, lowIdFirst) ==
    LET roomId == getRoomId(groupId, userId, recipientId)[1]
        cachedMessages == Lrange(lists[roomId], 0, limit - 1)
        found == WarmQuery(rows, groupId, userId, recipientId, limit, lowIdFirst)
    IN IF Len(cachedMessages) > 0 THEN cachedMessages
       ELSE [i \in 1 .. Len(found) |-> CacheEntry(Reverse(Reverse(found))[i])]

\* EXPIRE chat:{roomId}:messages 3600 running out
CacheExpire(roomId) ==
    /\ cache[roomId] # << >>
    /\ cache' = [cache EXCEPT ![roomId] = << >>]
    /\ UNCHANGED << now, auth, persistVars, pc, local, ack, sessions, connections, locVars, pingVars,
                   friendships, inbox, groupMembers, messages, socketRooms,
                   userRooms, roomMembers, typing, chatQueue, pushLog, readCount >>

(***************************************************************************)
(* ChatGateway.handleReadReceipt / ChatService.markMessageAsRead            *)
(***************************************************************************)
\* mutant: the UPDATE without its NOT :userId = ANY("read_by") condition
markMessageAsRead_unguarded(rows, messageId, userId) ==
    [i \in DOMAIN rows |->
        IF rows[i].id = messageId
        THEN [rows[i] EXCEPT !.readBy = Append(@, userId)]
        ELSE rows[i]]

\* UPDATE messages SET read_by = array_append(read_by, userId)
\*  WHERE id = messageId AND NOT userId = ANY(read_by)
markMessageAsRead(rows, messageId, userId) ==
    [i \in DOMAIN rows |->
        IF rows[i].id = messageId
           /\ ~ \E k \in DOMAIN rows[i].readBy : rows[i].readBy[k] = userId
        THEN [rows[i] EXCEPT !.readBy = Append(@, userId)]
        ELSE rows[i]]

\* the chat:read frames of a receipt: to the sockets of group:{groupId}
ReadFrames(messageId, userId, groupId) ==
    [d \in Conns |->
        IF groupId # Nothing /\ d \in SocketsIn("group:" \o groupId[1])
        THEN {[type |-> "chat:read", messageId |-> messageId, userId |-> userId]}
        ELSE {}]

Applications(messageId, userId) ==
    IF << messageId, userId >> \in DOMAIN readCount
    THEN readCount[<< messageId, userId >>] ELSE 0

handleReadReceipt(c, messageId, groupId) ==
    /\ pc[c] = "idle"
    /\ Applications(messageId, ConnUser[c]) < MaxReads
    /\ messages' = markMessageAsRead(messages, messageId, ConnUser[c])
    /\ readCount' = [k \in DOMAIN readCount \cup {<< messageId, ConnUser[c] >>} |->
                        IF k = << messageId, ConnUser[c] >>
                        THEN Applications(messageId, ConnUser[c]) + 1
                        ELSE readCount[k]]
    /\ inbox' = [d \in Conns |->
                    inbox[d] \cup ReadFrames(messageId, ConnUser[c], groupId)[d]]
    /\ ack' = [ack EXCEPT ![c] = [op |-> "chat:read", success |-> TRUE]]
    /\ UNCHANGED << now, auth, persistVars, pc, local, sessions, connections, locVars, pingVars,
                   friendships, groupMembers, cache, socketRooms, userRooms,
                   roomMembers, typing, chatQueue, pushLog >>

(***************************************************************************)
(* GroupService.addMembers / removeMember                                   *)
(***************************************************************************)
addMembers(groupId, requesterId, memberIds) ==
    /\ requesterId \in groupMembers[groupId]
    /\ ~ (memberIds \subseteq groupMembers[groupId])
    /\ groupMembers' = [groupMembers EXCEPT ![groupId] = @ \cup memberIds]
    /\ UNCHANGED << now, auth, persistVars, pc, local, ack, sessions, connections, locVars, pingVars,
                   friendships, inbox, messages, cache, socketRooms, userRooms,
                   roomMembers, typing, chatQueue, pushLog, readCount >>

removeMember(groupId, requesterId, memberId) ==
    /\ ~ (requesterId # CreatedBy[groupId] /\ requesterId # memberId)
    /\ ~ (memberId = CreatedBy[groupId] /\ requesterId # memberId)
    /\ memberId \in groupMembers[groupId]
    /\ groupMembers' = [groupMembers EXCEPT ![groupId] = @ \ {memberId}]
    /\ UNCHANGED << now, auth, persistVars, pc, local, ack, sessions, connections, locVars, pingVars,
                   friendships, inbox, messages, cache, socketRooms, userRooms,
                   roomMembers, typing, chatQueue, pushLog, readCount >>

(***************************************************************************)
(* LocationGateway.handleDisconnect / LocationService.handleUserDisconnect  *)
(***************************************************************************)
\* SREM connections:{userId} client.id
handleDisconnect_srem(c) ==
    /\ pc[c] = "idle"
    /\ connections' = [connections EXCEPT ![ConnUser[c]] = @ \ {c}]
    /\ pc' = [pc EXCEPT ![c] = "disconnect_scard"]
    /\ local' = [local EXCEPT ![c] = [op |-> "disconnect"]]
    /\ UNCHANGED << now, auth, persistVars, ack, sessions, locVars, pingVars, friendships, inbox,
                   chatVars >>

\* SCARD connections:{userId}; with sockets remaining the handler ends with
\* lastPingTimestamps.delete(client.id)
handleDisconnect_scard(c) ==
    /\ pc[c] = "disconnect_scard"
    /\ IF connections[ConnUser[c]] = {}
       THEN /\ pc' = [pc EXCEPT ![c] = "disconnect_zrem"]
            /\ UNCHANGED << local, ack, lastPingTimestamps, pingLog >>
       ELSE /\ lastPingTimestamps' = [lastPingTimestamps EXCEPT ![c] = Nothing]
            /\ pingLog' = [pingLog EXCEPT ![c] = NoPingLog]
            /\ ack' = [ack EXCEPT ![c] = [op |-> "disconnect", success |-> TRUE]]
            /\ pc' = [pc EXCEPT ![c] = "idle"]
            /\ local' = [local EXCEPT ![c] = NoLocal]
    /\ UNCHANGED << now, auth, persistVars, sessions, connections, locVars, queue, friendships, inbox,
                   chatVars >>

\* mutant: the last socket leaving ends the user's active sessions
handleUserDisconnect_endsSession(c) ==
    /\ pc[c] = "disconnect_zrem"
    /\ geo' = [geo EXCEPT ![ConnUser[c]] = Nothing]
    /\ sessions' = CloseActiveSessions(sessions, ConnUser[c], now)
    /\ lastPingTimestamps' = [lastPingTimestamps EXCEPT ![c] = Nothing]
    /\ pingLog' = [pingLog EXCEPT ![c] = NoPingLog]
    /\ ack' = [ack EXCEPT ![c] = [op |-> "disconnect", success |-> TRUE]]
    /\ pc' = [pc EXCEPT ![c] = "idle"]
    /\ local' = [local EXCEPT ![c] = NoLocal]
    /\ UNCHANGED << now, auth, persistVars, connections, locHash, queue, friendships, inbox,
                   chatVars >>

\* handleUserDisconnect: ZREM geo:users userId, and nothing else; then
\* lastPingTimestamps.delete(client.id). The socket that connects next for
\* the user takes the place of the one that left.
handleUserDisconnect_zrem(c) ==
    /\ pc[c] = "disconnect_zrem"
    /\ geo' = [geo EXCEPT ![ConnUser[c]] = Nothing]
    /\ lastPingTimestamps' = [lastPingTimestamps EXCEPT ![c] = Nothing]
    /\ pingLog' = [pingLog EXCEPT ![c] = NoPingLog]
    /\ ack' = [ack EXCEPT ![c] = [op |-> "disconnect", success |-> TRUE]]
    /\ pc' = [pc EXCEPT ![c] = "idle"]
    /\ local' = [local EXCEPT ![c] = NoLocal]
    /\ UNCHANGED << now, auth, persistVars, sessions, connections, locHash, queue, friendships, inbox,
                   chatVars >>

\* EXPIRE location:{userId} 300 running out; geo:users carries no expiry
LocationExpire(userId) ==
    /\ locHash[userId] # Nothing
    /\ locHash' = [locHash EXCEPT ![userId] = Nothing]
    /\ UNCHANGED << now, auth, persistVars, pc, local, ack, sessions, connections, geo, pingVars,
                   friendships, inbox, chatVars >>

(***************************************************************************)
(* ChatGateway.handleTyping, which has no try/catch and returns nothing    *)
(***************************************************************************)
\* what is left of a handler whose exception went up to the gateway
Escaped(op, message) == [op |-> op, escaped |-> message]

\* getRoomId, which throws without groupId and recipientId; otherwise the
\* SETEX of typing:{roomId}:{userId} with 5 s, or its DEL, is awaited
handleTyping_getRoomId(c, payload, isTyping) ==
    /\ pc[c] = "idle"
    /\ LET roomId == getRoomId(payload.groupId, ConnUser[c], payload.recipientId) IN
        IF roomId = Nothing
        THEN /\ ack' = [ack EXCEPT ![c] =
                    Escaped("chat:typing",
                            "Either groupId or recipientId must be provided")]
             /\ UNCHANGED << pc, local >>
        ELSE /\ pc' = [pc EXCEPT ![c] = "typing_setex"]
             /\ local' = [local EXCEPT ![c] =
                    [op |-> "chat:typing", roomId |-> roomId[1],
                     isTyping |-> isTyping]]
             /\ UNCHANGED ack
    /\ UNCHANGED << now, auth, persistVars, sessions, connections, locVars, pingVars,
                   friendships, inbox, chatVars >>

\* the SETEX or DEL rejects: nothing catches it
handleTyping_reject(c) ==
    /\ pc[c] = "typing_setex"
    /\ ack' = [ack EXCEPT ![c] = Escaped("chat:typing", "HOT")]
    /\ pc' = [pc EXCEPT ![c] = "idle"]
    /\ local' = [local EXCEPT ![c] = NoLocal]
    /\ UNCHANGED << now, auth, persistVars, sessions, connections, locVars, pingVars,
                   friendships, inbox, chatVars >>

\* the SETEX or DEL is done, and client.to(roomId).emit('chat:typing', ...)
\* reaches every socket in the room but the sender's; the handler returns
\* nothing
handleTyping_setex(c) ==
    /\ pc[c] = "typing_setex"
    /\ typing' = IF local[c].isTyping
                 THEN typing \cup {<< local[c].roomId, ConnUser[c] >>}
                 ELSE typing \ {<< local[c].roomId, ConnUser[c] >>}
    /\ inbox' = [d \in Conns |->
            IF d # c /\ d \in SocketsIn(local[c].roomId)
            THEN inbox[d] \cup {[type |-> "chat:typing", userId |-> ConnUser[c],
                                 roomId |-> local[c].roomId,
                                 isTyping |-> local[c].isTyping]}
            ELSE inbox[d]]
    /\ ack' = [ack EXCEPT ![c] = [op |-> "chat:typing", success |-> TRUE]]
    /\ pc' = [pc EXCEPT ![c] = "idle"]
    /\ local' = [local EXCEPT ![c] = NoLocal]
    /\ UNCHANGED << now, auth, persistVars, sessions, connections, locVars, pingVars,
                   friendships, groupMembers, messages, cache, socketRooms,
                   userRooms, roomMembers, chatQueue, pushLog, readCount >>

(***************************************************************************)
(* LocationPingProcessor: process, the flush timer, flushBatch and         *)
(* updateSessionStats.  A job carries userId, sessionId, position,         *)
(* altitude, speed and timestamp.                                          *)
(***************************************************************************)
BATCH_SIZE == 100

\* const batch = this.batchBuffer.splice(0, this.BATCH_SIZE)
Splice(buffer) ==
    LET n == IF Len(buffer) < BATCH_SIZE THEN Len(buffer) ELSE BATCH_SIZE IN
    [batch |-> SubSeq(buffer, 1, n), rest |-> SubSeq(buffer, n + 1, Len(buffer))]

\* flushBatch up to its first await: an empty buffer returns at once,
\* otherwise the batch is detached and the insert is under way
flushBatch(f, buffer) ==
    IF buffer = << >>
    THEN /\ batchBuffer' = buffer
         /\ UNCHANGED flush
    ELSE /\ batchBuffer' = Splice(buffer).rest
         /\ flush' = [flush EXCEPT ![f] = [pc |-> "save", batch |-> Splice(buffer).batch]]

\* process(job): the job's data joins the buffer, and a full buffer is flushed
process(f) ==
    /\ flush[f].pc = "idle"
    /\ queue # << >>
    /\ queue' = Tail(queue)
    /\ LET buffer == Append(batchBuffer, Head(queue)) IN
        IF Len(buffer) >= BATCH_SIZE
        THEN flushBatch(f, buffer)
        ELSE batchBuffer' = buffer /\ UNCHANGED flush
    /\ UNCHANGED << now, auth, pc, local, ack, sessions, connections, locVars,
                   lastPingTimestamps, pingLog, friendships, inbox, locationPings,
                   chatVars >>

\* the interval timer: if (this.batchBuffer.length > 0) this.flushBatch()
startFlushTimer(f) ==
    /\ flush[f].pc = "idle"
    /\ Len(batchBuffer) > 0
    /\ flushBatch(f, batchBuffer)
    /\ UNCHANGED << now, auth, pc, local, ack, sessions, connections, locVars, pingVars,
                   friendships, inbox, locationPings, chatVars >>

\* [...new Set(batch.map((d) => d.sessionId))]: first occurrences, in order
UniqueSessionIds(batch) ==
    LET first == SelectSeq([i \in 1 .. Len(batch) |-> i],
                    LAMBDA i : \A j \in 1 .. i - 1 :
                                    batch[j].sessionId # batch[i].sessionId)
    IN  [k \in 1 .. Len(first) |-> batch[first[k]].sessionId]

\* await this.locationPingRepository.save(entities)
flushBatch_save(f) ==
    /\ flush[f].pc = "save"
    /\ locationPings' = locationPings \o flush[f].batch
    /\ flush' = [flush EXCEPT ![f] =
            [pc |-> "find", batch |-> flush[f].batch,
             sessionIds |-> UniqueSessionIds(flush[f].batch)]]
    /\ UNCHANGED << now, auth, pc, local, ack, sessions, connections, locVars, pingVars,
                   friendships, inbox, batchBuffer, chatVars >>

\* the for loop over sessionIds moves on; after the last one flushBatch is done
NextSessionId(run) ==
    IF Len(run.sessionIds) = 1 THEN NoFlush
    ELSE [pc |-> "find", batch |-> run.batch, sessionIds |-> Tail(run.sessionIds)]

\* batch.filter((d) => d.sessionId === sessionId)
SessionPings(batch, sessionId) ==
    SelectSeq(batch, LAMBDA d : d.sessionId = sessionId)

\* updateSessionStats: findOne({ where: { id: sessionId } }); no row, no update
updateSessionStats_find(f) ==
    /\ flush[f].pc = "find"
    /\ LET found == {i \in DOMAIN sessions :
                        sessions[i].id = Head(flush[f].sessionIds)} IN
        flush' = [flush EXCEPT ![f] =
            IF found = {} THEN NextSessionId(flush[f])
            ELSE [pc |-> "update", batch |-> flush[f].batch,
                  sessionIds |-> flush[f].sessionIds,
                  session |-> sessions[CHOOSE i \in found : TRUE]]]
    /\ UNCHANGED << now, auth, pc, local, ack, sessions, connections, locVars, pingVars,
                   friendships, inbox, batchBuffer, locationPings, chatVars >>

RECURSIVE AdditionalDistance(_, _)
\* for (let i = 1; ...) additionalDistance += haversineDistance(prev, curr)
AdditionalDistance(pings, i) ==
    IF i > Len(pings) THEN 0
    ELSE Distance(pings[i - 1].position, pings[i].position)
         + AdditionalDistance(pings, i + 1)

RECURSIVE VerticalDescent(_, _)
\* if (curr.altitude < prev.altitude) verticalDescent += prev.altitude - curr.altitude
VerticalDescent(pings, i) ==
    IF i > Len(pings) THEN 0
    ELSE (IF pings[i].altitude < pings[i - 1].altitude
          THEN pings[i - 1].altitude - pings[i].altitude ELSE 0)
         + VerticalDescent(pings, i + 1)

RECURSIVE MaxSpeed(_, _, _)
\* let maxSpeed = session.maxSpeed; for (let i = 1; ...)
\*     if (curr.speed > maxSpeed) maxSpeed = curr.speed
MaxSpeed(pings, i, maxSpeed) ==
    IF i > Len(pings) THEN maxSpeed
    ELSE MaxSpeed(pings, i + 1,
                  IF pings[i].speed > maxSpeed THEN pings[i].speed ELSE maxSpeed)

\* the loop of updateSessionStats starts at the second ping (index 1 in the
\* code, 2 here), and the update writes the three values computed from the
\* session as it was loaded
updateSessionStats_update(f) ==
    /\ flush[f].pc = "update"
    /\ LET session == flush[f].session
           pings == SessionPings(flush[f].batch, session.id) IN
        sessions' = [i \in DOMAIN sessions |->
            IF sessions[i].id = session.id
            THEN [sessions[i] EXCEPT
                    !.totalDistance = session.totalDistance + AdditionalDistance(pings, 2),
                    !.totalVertical = session.totalVertical + VerticalDescent(pings, 2),
                    !.maxSpeed = MaxSpeed(pings, 2, session.maxSpeed),
                    !.flushedDistance = @ + AdditionalDistance(pings, 2),
                    !.flushedVertical = @ + VerticalDescent(pings, 2)]
            ELSE sessions[i]]
    /\ flush' = [flush EXCEPT ![f] = NextSessionId(flush[f])]
    /\ UNCHANGED << now, auth, pc, local, ack, connections, locVars, pingVars,
                   friendships, inbox, batchBuffer, locationPings, chatVars >>

\* mutant: the failed batch is put back behind what arrived meanwhile
flushBatch_catch_push(f) ==
    /\ flush[f].pc \in {"save", "find", "update"}
    /\ flush[f].pc = "save" \/ Len(locationPings) < MaxPingRows
    /\ batchBuffer' = batchBuffer \o flush[f].batch
    /\ flush' = [flush EXCEPT ![f] = NoFlush]
    /\ UNCHANGED << now, auth, pc, local, ack, sessions, connections, locVars, pingVars,
                   friendships, inbox, locationPings, chatVars >>

\* the worker process restarts: the processor is constructed anew with
\* batchBuffer = [] and no flush running; what process() took from the queue
\* was completed when process() returned and is not delivered again
WorkerRestart ==
    /\ batchBuffer # << >> \/ \E f \in Flushers : flush[f] # NoFlush
    /\ batchBuffer' = << >>
    /\ flush' = [f \in Flushers |-> NoFlush]
    /\ UNCHANGED << now, auth, pc, local, ack, sessions, connections, locVars, pingVars,
                   friendships, inbox, locationPings, chatVars >>

\* a WARM call of the flush throws: this.batchBuffer.unshift(...batch)
flushBatch_catch(f) ==
    /\ flush[f].pc \in {"save", "find", "update"}
    /\ flush[f].pc = "save" \/ Len(locationPings) < MaxPingRows
    /\ batchBuffer' = flush[f].batch \o batchBuffer
    /\ flush' = [flush EXCEPT ![f] = NoFlush]
    /\ UNCHANGED << now, auth, pc, local, ack, sessions, connections, locVars, pingVars,
                   friendships, inbox, locationPings, chatVars >>

(***************************************************************************)
(* handleConnection of both gateways and WsAuthGuard.canActivate, which    *)
(* runs before the body of every @SubscribeMessage handler.  ran records   *)
(* that the guard let a handler body run for the socket.                   *)
(***************************************************************************)
\* handleConnection: the connection is logged, nothing is verified
handleConnection(c, token) ==
    /\ ~ auth[c].open
    /\ auth' = [auth EXCEPT ![c] = [open |-> TRUE, token |-> token,
                                    user |-> Nothing, ran |-> FALSE]]
    /\ UNCHANGED << now, pc, local, ack, sessions, connections, locVars, pingVars,
                   friendships, inbox, persistVars, chatVars >>

\* what the client gets for a WsException thrown by the guard
WsException(message) == [op |-> "exception", message |-> message]

\* canActivate up to its await, for a message on an open socket: client.user
\* set lets the handler run, no token throws, else verifyIdToken is awaited
canActivate_token(c) ==
    /\ auth[c].open
    /\ pc[c] = "idle"
    /\ IF auth[c].user # Nothing
       THEN /\ auth' = [auth EXCEPT ![c].ran = TRUE]
            /\ UNCHANGED << pc, ack >>
       ELSE IF auth[c].token = "none"
       THEN /\ ack' = [ack EXCEPT ![c] =
                    WsException("No authentication token provided")]
            /\ UNCHANGED << pc, auth >>
       ELSE /\ pc' = [pc EXCEPT ![c] = "auth_verify"]
            /\ UNCHANGED << ack, auth >>
    /\ UNCHANGED << now, local, sessions, connections, locVars, pingVars,
                   friendships, inbox, persistVars, chatVars >>

\* verifyIdToken returns: client.user is set and the handler runs, or the
\* rejection is turned into a WsException
canActivate_verify(c) ==
    /\ pc[c] = "auth_verify"
    /\ pc' = [pc EXCEPT ![c] = "idle"]
    /\ IF auth[c].token = "valid"
       THEN /\ auth' = [auth EXCEPT ![c].user = Just(ConnUser[c]), ![c].ran = TRUE]
            /\ UNCHANGED ack
       ELSE /\ ack' = [ack EXCEPT ![c] = WsException("Invalid or expired token")]
            /\ UNCHANGED auth
    /\ UNCHANGED << now, local, sessions, connections, locVars, pingVars,
                   friendships, inbox, persistVars, chatVars >>

\* handleDisconnect of a socket without client.user: only the throttle entry
\* of the socket is deleted
handleDisconnect_anonymous(c) ==
    /\ auth[c].open /\ auth[c].user = Nothing
    /\ pc[c] = "idle"
    /\ auth' = [auth EXCEPT ![c] = Closed]
    /\ lastPingTimestamps' = [lastPingTimestamps EXCEPT ![c] = Nothing]
    /\ UNCHANGED << now, pc, local, ack, sessions, connections, locVars, queue,
                   pingLog, friendships, inbox, persistVars, chatVars >>

\* the socket of an authenticated user closes and handleDisconnect runs up
\* to its first await: SREM connections:{userId} client.id
handleDisconnect_close(c) ==
    /\ auth[c].open /\ auth[c].user # Nothing
    /\ pc[c] = "idle"
    /\ auth' = [auth EXCEPT ![c] = Closed]
    /\ connections' = [connections EXCEPT ![ConnUser[c]] = @ \ {c}]
    /\ pc' = [pc EXCEPT ![c] = "disconnect_scard"]
    /\ local' = [local EXCEPT ![c] = [op |-> "disconnect"]]
    /\ UNCHANGED << now, ack, sessions, locVars, pingVars, friendships, inbox,
                   persistVars, chatVars >>

SessionConns == {"c1", "c2", "c3"}
SessionIds == 1 .. MaxSessions

NextSession ==
    \/ \E c \in SessionConns : startSession_update(c)
    \/ \E c \in SessionConns : startSession_save(c)
    \/ \E c \in SessionConns : handleSessionStart_track(c)
    \/ \E c \in SessionConns : handleSessionStart_catch(c)
    \/ \E c \in SessionConns, sessionId \in SessionIds : endSession_find(c, sessionId)
    \/ \E c \in SessionConns : endSession_save(c)
    \/ \E c \in SessionConns : endSession_zrem(c)
    \/ \E c \in SessionConns : endSession_del(c)

SpecSession == Init /\ [][NextSession]_vars

(***************************************************************************)
(* The ping path: every user has started a session, so connections:{userId} *)
(* holds the user's sockets, and user 3 has pinged before.                  *)
(***************************************************************************)
PingConns == {"c1", "c3"}
ThrottleConns == {"c1", "c2"}
ThrottlePositions == {0}
PingSessionIds == {1}

InitPing ==
    /\ now = Epoch
    /\ NoPersister
    /\ Authenticated
    /\ pc = [c \in Conns |-> "idle"]
    /\ local = [c \in Conns |-> NoLocal]
    /\ ack = [c \in Conns |-> NoAck]
    /\ sessions = << NewSession(1, 1, 0), NewSession(2, 2, 0), NewSession(3, 3, 0) >>
    /\ connections = [u \in Users |-> {c \in Conns : ConnUser[c] = u}]
    /\ geo = [u \in Users |-> IF u = 3 THEN Just(0) ELSE Nothing]
    /\ locHash = [u \in Users |->
            IF u = 3 THEN Just([position |-> 0, sessionId |-> 3, timestamp |-> 0])
            ELSE Nothing]
    /\ lastPingTimestamps = [c \in Conns |-> Nothing]
    /\ queue = << >>
    /\ friendships \in [FriendRows -> {"none", "Accepted"}]
    /\ inbox = [c \in Conns |-> {}]
    /\ pingLog = [c \in Conns |-> NoPingLog]
    /\ NoChat

PingSteps(c, positions) ==
    \/ \E position \in positions, sessionId \in PingSessionIds :
            handleLocationPing_throttle(c, LocationPing(position, sessionId))
    \/ processLocationPing_hmset(c)
    \/ processLocationPing_enqueue(c)
    \/ findNearbyFriends_friendships(c)
    \/ findNearbyFriends_georadius(c)
    \/ handleLocationPing_emit(c)

\* the friend fan-out of pings while friendships change
NextFanout ==
    \/ \E c \in PingConns : PingSteps(c, Positions)
    \/ \E r \in FriendRows, status \in FriendshipStatus \cup {"none"} :
            SetFriendship(r, status)

SpecFanout == InitPing /\ [][NextFanout]_vars

\* the throttle of pings while the clock advances
NextThrottle ==
    \/ Tick
    \/ \E c \in ThrottleConns : PingSteps(c, ThrottlePositions)

SpecThrottle == InitPing /\ [][NextThrottle]_vars

(***************************************************************************)
(* Presence: pings, session ends, disconnects and expiry of one user's      *)
(* sockets                                                                  *)
(***************************************************************************)
PresenceConns == {"c1", "c2"}
PresencePositions == {0}
PresenceSessionIds == {1, 2, 3}

\* the pings that have not reached the job queue yet
PingsBeforeEnqueue == {c \in Conns : pc[c] \in {"ping_hmset", "ping_enqueue"}}

\* users 1 and 2 are friends and have an active session each, and the sockets
\* of user 1 are tracked in connections:{userId}
InitPresence ==
    /\ now = Epoch
    /\ NoPersister
    /\ Authenticated
    /\ pc = [c \in Conns |-> "idle"]
    /\ local = [c \in Conns |-> NoLocal]
    /\ ack = [c \in Conns |-> NoAck]
    /\ sessions = << NewSession(1, 1, 0), NewSession(2, 2, 0) >>
    /\ connections = [u \in Users |-> IF u = 1 THEN PresenceConns ELSE {}]
    /\ geo = [u \in Users |-> Nothing]
    /\ locHash = [u \in Users |-> Nothing]
    /\ lastPingTimestamps = [c \in Conns |-> Nothing]
    /\ queue = << >>
    /\ friendships = [r \in FriendRows |-> IF r = << 1, 2 >> THEN "Accepted" ELSE "none"]
    /\ inbox = [c \in Conns |-> {}]
    /\ pingLog = [c \in Conns |-> NoPingLog]
    /\ NoChat

NextPresence ==
    \/ \E c \in PresenceConns :
        \/ /\ Len(queue) + Cardinality(PingsBeforeEnqueue) < MaxPings
           /\ \E position \in PresencePositions, sessionId \in PingSessionIds :
                handleLocationPing_throttle(c, LocationPing(position, sessionId))
        \/ processLocationPing_hmset(c)
        \/ processLocationPing_enqueue(c)
        \/ findNearbyFriends_friendships(c)
        \/ findNearbyFriends_georadius(c)
        \/ handleLocationPing_emit(c)
        \/ \E sessionId \in PresenceSessionIds : endSession_find(c, sessionId)
        \/ endSession_save(c)
        \/ endSession_zrem(c)
        \/ endSession_del(c)
        \/ handleDisconnect_srem(c)
        \/ handleDisconnect_scard(c)
        \/ handleUserDisconnect_zrem(c)
    \/ \E userId \in Users : LocationExpire(userId)

SpecPresence == InitPresence /\ [][NextPresence]_vars

\* socket c1 of user 1 leaves while socket c2 of the same user starts a
\* session and pings; c1 has started the user's session, c2 has not yet
LeavingConns == {"c1"}
StayingConns == {"c2"}

InitLeave ==
    /\ now = Epoch
    /\ NoPersister
    /\ Authenticated
    /\ pc = [c \in Conns |-> "idle"]
    /\ local = [c \in Conns |-> NoLocal]
    /\ ack = [c \in Conns |-> NoAck]
    /\ sessions = << NewSession(1, 1, 0) >>
    /\ connections = [u \in Users |-> IF u = 1 THEN LeavingConns ELSE {}]
    /\ geo = [u \in Users |-> Nothing]
    /\ locHash = [u \in Users |-> Nothing]
    /\ lastPingTimestamps = [c \in Conns |-> Nothing]
    /\ queue = << >>
    /\ friendships = [r \in FriendRows |-> "none"]
    /\ inbox = [c \in Conns |-> {}]
    /\ pingLog = [c \in Conns |-> NoPingLog]
    /\ NoChat

NextLeave ==
    \/ \E c \in LeavingConns :
        \/ handleDisconnect_srem(c) /\ ack[c].op # "disconnect"
        \/ handleDisconnect_scard(c)
        \/ handleUserDisconnect_zrem(c)
    \/ \E c \in StayingConns :
        \/ startSession_update(c)
        \/ startSession_save(c)
        \/ handleSessionStart_track(c)
        \/ /\ Len(queue) + Cardinality(PingsBeforeEnqueue) < MaxPings
           /\ \E position \in PresencePositions, sessionId \in PresenceSessionIds :
                handleLocationPing_throttle(c, LocationPing(position, sessionId))
        \/ processLocationPing_hmset(c)
        \/ processLocationPing_enqueue(c)
        \/ findNearbyFriends_friendships(c)
    \/ Tick

SpecLeave == InitLeave /\ [][NextLeave]_vars

(***************************************************************************)
(* The persister alone: jobs wait in the queue, are buffered by process    *)
(* and flushed by the timer, while a WARM call may fail.                   *)
(***************************************************************************)
FlushSessionIds == {1, 2}
PreviousSpeeds == {0, 20}

\* where a skier can be when pinging: standing at the top, or 100 m further
\* and 10 m lower at speed
FlushPoints ==
    {[position |-> 0, altitude |-> 3000, speed |-> 10],
     [position |-> 100, altitude |-> 2990, speed |-> 30]}

\* the job data of pings of sessions 1 (of user 1) and 2 (of user 2)
FlushJobs ==
    {[userId |-> sessionId, sessionId |-> sessionId, position |-> p.position,
      altitude |-> p.altitude, speed |-> p.speed, accuracy |-> 5,
      timestamp |-> Epoch] :
        sessionId \in FlushSessionIds, p \in FlushPoints}

InitFlush ==
    /\ now = Epoch
    /\ NoPersister
    /\ Authenticated
    /\ pc = [c \in Conns |-> "idle"]
    /\ local = [c \in Conns |-> NoLocal]
    /\ ack = [c \in Conns |-> NoAck]
    /\ \E maxSpeed \in PreviousSpeeds :
        sessions = << [NewSession(1, 1, 0) EXCEPT !.maxSpeed = maxSpeed],
                      NewSession(2, 2, 0) >>
    /\ connections = [u \in Users |-> {}]
    /\ geo = [u \in Users |-> Nothing]
    /\ locHash = [u \in Users |-> Nothing]
    /\ lastPingTimestamps = [c \in Conns |-> Nothing]
    /\ queue \in UNION {[1 .. n -> FlushJobs] : n \in 1 .. MaxJobs}
    /\ friendships = [r \in FriendRows |-> "none"]
    /\ inbox = [c \in Conns |-> {}]
    /\ pingLog = [c \in Conns |-> NoPingLog]
    /\ NoChat

NextFlush ==
    \E f \in Flushers :
        \/ process(f)
        \/ startFlushTimer(f)
        \/ flushBatch_save(f)
        \/ updateSessionStats_find(f)
        \/ updateSessionStats_update(f)
        \/ flushBatch_catch(f)

SpecFlush == InitFlush /\ [][NextFlush]_vars

\* the same persister fed with the pings of one session only
RetryJobs == {job \in FlushJobs : job.sessionId = 1}

InitRetry ==
    /\ now = Epoch
    /\ NoPersister
    /\ Authenticated
    /\ pc = [c \in Conns |-> "idle"]
    /\ local = [c \in Conns |-> NoLocal]
    /\ ack = [c \in Conns |-> NoAck]
    /\ sessions = << NewSession(1, 1, 0), NewSession(2, 2, 0) >>
    /\ connections = [u \in Users |-> {}]
    /\ geo = [u \in Users |-> Nothing]
    /\ locHash = [u \in Users |-> Nothing]
    /\ lastPingTimestamps = [c \in Conns |-> Nothing]
    /\ queue \in UNION {[1 .. n -> RetryJobs] : n \in 1 .. MaxJobs}
    /\ friendships = [r \in FriendRows |-> "none"]
    /\ inbox = [c \in Conns |-> {}]
    /\ pingLog = [c \in Conns |-> NoPingLog]
    /\ NoChat

SpecRetry == InitRetry /\ [][NextFlush]_vars

\* pings of session 1 captured one second apart and delivered by the queue in
\* any order; no WARM call fails
CaptureTimes == {Epoch + 1000 * k : k \in 0 .. MaxJobs - 1}
CapturedJobs ==
    {[userId |-> 1, sessionId |-> 1, position |-> p.position,
      altitude |-> p.altitude, speed |-> p.speed, accuracy |-> 5,
      timestamp |-> t] : p \in FlushPoints, t \in CaptureTimes}

InitUnordered ==
    /\ now = Epoch
    /\ NoPersister
    /\ Authenticated
    /\ pc = [c \in Conns |-> "idle"]
    /\ local = [c \in Conns |-> NoLocal]
    /\ ack = [c \in Conns |-> NoAck]
    /\ sessions = << NewSession(1, 1, 0), NewSession(2, 2, 0) >>
    /\ connections = [u \in Users |-> {}]
    /\ geo = [u \in Users |-> Nothing]
    /\ locHash = [u \in Users |-> Nothing]
    /\ lastPingTimestamps = [c \in Conns |-> Nothing]
    /\ queue \in {q \in UNION {[1 .. n -> CapturedJobs] : n \in 1 .. MaxJobs} :
                    \A i, j \in DOMAIN q :
                        i # j => q[i].timestamp # q[j].timestamp}
    /\ friendships = [r \in FriendRows |-> "none"]
    /\ inbox = [c \in Conns |-> {}]
    /\ pingLog = [c \in Conns |-> NoPingLog]
    /\ NoChat

UnorderedFlushers == {1}

NextUnordered ==
    \E f \in UnorderedFlushers :
        \/ process(f)
        \/ startFlushTimer(f)
        \/ flushBatch_save(f)
        \/ updateSessionStats_find(f)
        \/ updateSessionStats_update(f)

SpecUnordered == InitUnordered /\ [][NextUnordered]_vars

\* pings of sessions 1 and 2 with distinct capture times, and a persister
\* whose WARM calls may reject
RedoJobs ==
    CapturedJobs \cup {[job EXCEPT !.userId = 2, !.sessionId = 2] :
                        job \in CapturedJobs}

InitRedo ==
    /\ now = Epoch
    /\ NoPersister
    /\ Authenticated
    /\ pc = [c \in Conns |-> "idle"]
    /\ local = [c \in Conns |-> NoLocal]
    /\ ack = [c \in Conns |-> NoAck]
    /\ sessions = << NewSession(1, 1, 0), NewSession(2, 2, 0) >>
    /\ connections = [u \in Users |-> {}]
    /\ geo = [u \in Users |-> Nothing]
    /\ locHash = [u \in Users |-> Nothing]
    /\ lastPingTimestamps = [c \in Conns |-> Nothing]
    /\ queue \in {q \in UNION {[1 .. n -> RedoJobs] : n \in 1 .. MaxJobs} :
                    \A i, j \in DOMAIN q :
                        i < j => q[i].timestamp < q[j].timestamp}
    /\ friendships = [r \in FriendRows |-> "none"]
    /\ inbox = [c \in Conns |-> {}]
    /\ pingLog = [c \in Conns |-> NoPingLog]
    /\ NoChat

NextRedo ==
    \/ NextUnordered
    \/ \E f \in UnorderedFlushers : flushBatch_catch(f)

SpecRedo == InitRedo /\ [][NextRedo]_vars

\* the same persister on a worker that may restart; the queue keeps
\* delivering, the timer keeps firing and every WARM call succeeds in the end
NextRestart ==
    \/ NextRedo
    \/ WorkerRestart

SpecRestart ==
    /\ InitRedo
    /\ [][NextRestart]_vars
    /\ \A f \in UnorderedFlushers :
        /\ WF_vars(process(f))
        /\ WF_vars(startFlushTimer(f))
        /\ SF_vars(flushBatch_save(f))
        /\ SF_vars(updateSessionStats_find(f))
        /\ SF_vars(updateSessionStats_update(f))

\* pings of user 2 that name session 2 (its own) or session 1 (of user 1),
\* from the socket to the location_pings table
OwnerConns == {"c3"}
OwnerPositions == {0, 100}
OwnerFlushers == {1}

NextOwner ==
    \/ \E c \in OwnerConns :
        \/ /\ Len(queue) + Cardinality(PingsBeforeEnqueue) < MaxPings
           /\ Len(locationPings) + Len(batchBuffer) + Len(queue)
                + Cardinality(PingsBeforeEnqueue) < MaxPingRows
           /\ \E position \in OwnerPositions, sessionId \in FlushSessionIds :
                handleLocationPing_throttle(c, LocationPing(position, sessionId))
        \/ processLocationPing_hmset(c)
        \/ processLocationPing_enqueue(c)
        \/ findNearbyFriends_friendships(c)
        \/ findNearbyFriends_georadius(c)
        \/ handleLocationPing_emit(c)
    \/ \E f \in OwnerFlushers :
        \/ process(f)
        \/ startFlushTimer(f)
        \/ flushBatch_save(f)
        \/ updateSessionStats_find(f)
        \/ updateSessionStats_update(f)
        \/ flushBatch_catch(f)
    \/ Tick

SpecOwner == InitPresence /\ [][NextOwner]_vars

(***************************************************************************)
(* Pings with payloads in and out of range, on a socket of a user without  *)
(* friends, while the clock advances.                                      *)
(***************************************************************************)
ValidateConns == {"c1"}

\* a valid payload and one payload for each rule of validation it can break
ValidPing == LocationPing(0, 1)
ValidatePings ==
    {ValidPing,
     [ValidPing EXCEPT !.position = 91 * METERS_PER_DEGREE],
     [ValidPing EXCEPT !.longitude = 181],
     [ValidPing EXCEPT !.accuracy = -1],
     [ValidPing EXCEPT !.sessionId = EmptySessionId]}

NextValidate ==
    \/ \E c \in ValidateConns :
        \/ /\ Len(queue) + Cardinality(PingsBeforeEnqueue) < MaxPings
           /\ \E data \in ValidatePings : handleLocationPing_throttle(c, data)
        \/ processLocationPing_hmset(c)
        \/ processLocationPing_enqueue(c)
        \/ findNearbyFriends_friendships(c)
        \/ handleLocationPing_catch(c)
    \/ Tick

SpecValidate == Init /\ [][NextValidate]_vars

\* the same pings, with frames that arrive while a ping is being handled
NextOrder ==
    \/ NextValidate
    \/ \E c \in ValidateConns : handleLocationPing_overtake(c)

SpecOrder == Init /\ [][NextOrder]_vars

(***************************************************************************)
(* Sockets connect with any token, send messages and close.                *)
(***************************************************************************)
InitAuth ==
    /\ now = Epoch
    /\ NoPersister
    /\ auth = [c \in Conns |-> Closed]
    /\ pc = [c \in Conns |-> "idle"]
    /\ local = [c \in Conns |-> NoLocal]
    /\ ack = [c \in Conns |-> NoAck]
    /\ sessions = << >>
    /\ connections = [u \in Users |-> {}]
    /\ geo = [u \in Users |-> Nothing]
    /\ locHash = [u \in Users |-> Nothing]
    /\ lastPingTimestamps = [c \in Conns |-> Nothing]
    /\ queue = << >>
    /\ friendships = [r \in FriendRows |-> "none"]
    /\ inbox = [c \in Conns |-> {}]
    /\ pingLog = [c \in Conns |-> NoPingLog]
    /\ NoChat

NextAuth ==
    \E c \in Conns :
        \/ \E token \in Tokens : handleConnection(c, token)
        \/ canActivate_token(c)
        \/ canActivate_verify(c)
        \/ handleDisconnect_anonymous(c)

SpecAuth == InitAuth /\ [][NextAuth]_vars

\* sockets connect, authenticate with their first message, start sessions
\* and close
RegistryConns == {"c1", "c2"}

NextRegistry ==
    \E c \in RegistryConns :
        \/ \E token \in {"invalid", "valid"} : handleConnection(c, token)
        \/ canActivate_token(c)
        \/ canActivate_verify(c)
        \/ auth[c].user # Nothing /\ startSession_update(c)
        \/ startSession_save(c)
        \/ handleSessionStart_track(c)
        \/ handleSessionStart_catch(c)
        \/ handleDisconnect_anonymous(c)
        \/ handleDisconnect_close(c)
        \/ handleDisconnect_scard(c)
        \/ handleUserDisconnect_zrem(c)

SpecRegistry == InitAuth /\ [][NextRegistry]_vars

(***************************************************************************)
(* Chat behaviours                                                          *)
(***************************************************************************)
GroupPayload == [groupId |-> Just("g1"), recipientId |-> Nothing]
DmPayload(recipientId) == [groupId |-> Nothing, recipientId |-> Just(recipientId)]
EmptyPayload == [groupId |-> Nothing, recipientId |-> Nothing]

\* a send, from insert to acknowledgement
SendSteps(c, payloads, maxSends) ==
    \/ /\ Cardinality(NewMessages) < maxSends
       /\ \E payload \in payloads, content \in Contents :
            createMessage_save(c, payload, content)
    \/ createMessage_lpush(c)
    \/ createMessage_ltrim(c)
    \/ handleSendMessage_emit(c)

\* a history request, from LRANGE to acknowledgement
HistorySteps(c, payloads, limits) ==
    \/ \E payload \in payloads, limit \in limits :
        getRecentMessages_lrange(c, payload, limit)
    \/ getRecentMessages_query(c)
    \/ getRecentMessages_refill(c)

\* access to rooms: joins, leaves, sends and history requests while group
\* membership and friendships change
AccessConns == {"c3", "c4"}
AccessPayloads == {GroupPayload, DmPayload(1), EmptyPayload}
AccessLimits == {50}
AccessMembers == {2, 3}
AccessSenders == {"c3"}

\* the group has its creator and user 2 as members
InitAccess ==
    /\ Idle
    /\ friendships = [r \in FriendRows |-> "none"]
    /\ ChatState([g \in Groups |-> {CreatedBy[g], 2}], << >>,
                 [r \in Rooms |-> << >>])

\* group membership and friendships change under the connections
AccessChanges ==
    \/ \E g \in Groups, requesterId \in Users, memberId \in AccessMembers :
        \/ addMembers(g, requesterId, {memberId})
        \/ removeMember(g, requesterId, memberId)
    \/ \E status \in {"none", "Accepted"} : SetFriendship(<< 1, 2 >>, status)

NextAccess ==
    \/ \E c \in AccessConns :
        \/ \E payload \in AccessPayloads : handleJoinRoom_verify(c, payload)
        \/ handleJoinRoom_track(c)
        \/ \E roomId \in socketRooms[c] : handleLeaveRoom(c, roomId)
    \/ \E c \in AccessSenders : SendSteps(c, AccessPayloads, MaxSends)
    \/ AccessChanges

SpecAccess == InitAccess /\ [][NextAccess]_vars

\* joins and leaves alone, while membership and friendships change
NextJoin ==
    \/ \E c \in AccessConns :
        \/ \E payload \in AccessPayloads : handleJoinRoom_verify(c, payload)
        \/ handleJoinRoom_track(c)
        \/ \E roomId \in socketRooms[c] : handleLeaveRoom(c, roomId)
    \/ AccessChanges

SpecJoin == InitAccess /\ [][NextJoin]_vars

\* sends and history requests of members and of others, no socket in a room
NextDenied ==
    \/ \E c \in AccessConns :
        \/ SendSteps(c, AccessPayloads, MaxSends)
        \/ HistorySteps(c, AccessPayloads, AccessLimits)
    \/ AccessChanges

SpecDenied == InitAccess /\ [][NextDenied]_vars

\* sends whose payload names a group, a recipient, both or neither
BothPayload(recipientId) ==
    [groupId |-> Just("g1"), recipientId |-> Just(recipientId)]
SendConns == {"c1", "c3"}
SendPayloads == {GroupPayload, DmPayload(2), BothPayload(2), EmptyPayload}

NextSend == \E c \in SendConns : SendSteps(c, SendPayloads, MaxCacheSends)

SpecSend == InitAccess /\ [][NextSend]_vars

\* the same sends, any of whose HOT or queue calls may reject
NextSendFail ==
    \/ NextSend
    \/ \E c \in SendConns : handleSendMessage_catch(c)

SpecSendFail == InitAccess /\ [][NextSendFail]_vars

\* the HOT list of one group room under concurrent sends, history requests
\* and expiry; WARM holds Stored earlier messages of the room
Stored == MESSAGE_CACHE_SIZE - 1
StoredMessages ==
    [i \in 1 .. Stored |->
        [id |-> i, senderId |-> 1 + (i % 2), groupId |-> Just("g1"),
         recipientId |-> Nothing, content |-> "hi", readBy |-> << >>,
         sentAt |-> i]]
CacheRoom == "group:g1"
CacheSenders == {"c1", "c3"}
CacheReaders == {"c2"}
CachePayloads == {GroupPayload}
CacheLimits == {50}

\* the list of the room is absent, or holds the stored messages, newest first
InitCache ==
    /\ Idle
    /\ friendships = [r \in FriendRows |-> "none"]
    /\ \E list \in {<< >>, LpushAll(<< >>, StoredMessages)} :
        ChatState([g \in Groups |-> {CreatedBy[g], 2}], StoredMessages,
                  [r \in Rooms |-> IF r = CacheRoom THEN list ELSE << >>])

NextCache ==
    \/ \E c \in CacheSenders : SendSteps(c, CachePayloads, MaxCacheSends)
    \/ \E c \in CacheReaders : HistorySteps(c, CachePayloads, CacheLimits)
    \/ CacheExpire(CacheRoom)

SpecCache == InitCache /\ [][NextCache]_vars

\* two history requests and a send on a room whose list is absent from HOT
\* while WARM holds two messages of the room
RefillMessages == SubSeq(StoredMessages, 1, 2)
RefillSenders == {"c1"}
RefillReaders == {"c2", "c3"}

InitRefill ==
    /\ Idle
    /\ friendships = [r \in FriendRows |-> "none"]
    /\ ChatState([g \in Groups |-> {CreatedBy[g], 2}], RefillMessages,
                 [r \in Rooms |-> << >>])

NextRefill ==
    \/ \E c \in RefillSenders : SendSteps(c, CachePayloads, MaxSends)
    \/ \E c \in RefillReaders : HistorySteps(c, CachePayloads, CacheLimits)
    \/ CacheExpire(CacheRoom)

SpecRefill == InitRefill /\ [][NextRefill]_vars

\* read receipts of the members of a group for its messages
ReadConns == {"c1", "c3"}
ReadMessageIds == {1, 2}
ReadMessages ==
    [i \in 1 .. 1 |->
        [id |-> i, senderId |-> i, groupId |-> Just("g1"),
         recipientId |-> Nothing, content |-> "hi", readBy |-> << >>,
         sentAt |-> i]]

InitRead ==
    /\ Idle
    /\ friendships = [r \in FriendRows |-> "none"]
    /\ ChatState([g \in Groups |-> {CreatedBy[g], 2}], ReadMessages,
                 [r \in Rooms |-> << >>])

NextRead ==
    \E c \in ReadConns :
        \/ handleJoinRoom_verify(c, GroupPayload)
        \/ handleJoinRoom_track(c)
        \/ \E messageId \in ReadMessageIds, groupId \in {Nothing, Just("g1")} :
            handleReadReceipt(c, messageId, groupId)

SpecRead == InitRead /\ [][NextRead]_vars

\* read receipts of a member of the group (user 2) and of a user who is not
\* a member (user 3)
ReceiptConns == {"c3", "c4"}

NextReceipt ==
    \E c \in ReceiptConns :
        \/ handleJoinRoom_verify(c, GroupPayload)
        \/ handleJoinRoom_track(c)
        \/ \E messageId \in ReadMessageIds, groupId \in {Nothing, Just("g1")} :
            handleReadReceipt(c, messageId, groupId)

SpecReceipt == InitRead /\ [][NextReceipt]_vars

\* read receipts for a direct message of user 1 to user 2, whose sockets
\* have joined their direct room; the payload of chat:read carries a
\* messageId and an optional groupId
DirectConns == {"c1", "c3"}
DirectMessages ==
    << [id |-> 1, senderId |-> 1, groupId |-> Nothing,
        recipientId |-> Just(2), content |-> "hi", readBy |-> << >>,
        sentAt |-> 1] >>

InitDirect ==
    /\ Idle
    /\ friendships = [r \in FriendRows |-> "Accepted"]
    /\ ChatState([g \in Groups |-> {CreatedBy[g], 2}], DirectMessages,
                 [r \in Rooms |-> << >>])

NextDirect ==
    \E c \in DirectConns :
        \/ \E payload \in {DmPayload(1), DmPayload(2)} :
            handleJoinRoom_verify(c, payload)
        \/ handleJoinRoom_track(c)
        \/ \E messageId \in ReadMessageIds, groupId \in {Nothing, Just("g1")} :
            handleReadReceipt(c, messageId, groupId)

SpecDirect == InitDirect /\ [][NextDirect]_vars

\* the rooms that joins resolve, for every pair of users
RoomConns == {"c1", "c3", "c4"}
RoomPayloads == {GroupPayload, EmptyPayload} \cup {DmPayload(u) : u \in Users}

InitRooms ==
    /\ Idle
    /\ friendships = [r \in FriendRows |-> "Accepted"]
    /\ ChatState([g \in Groups |-> {CreatedBy[g], 2}], << >>,
                 [r \in Rooms |-> << >>])

NextRooms ==
    \E c \in RoomConns :
        \/ \E payload \in RoomPayloads : handleJoinRoom_verify(c, payload)
        \/ handleJoinRoom_track(c)
        \/ \E roomId \in socketRooms[c] : handleLeaveRoom(c, roomId)

SpecRooms == InitRooms /\ [][NextRooms]_vars

\* typing indicators of sockets that join rooms
TypingConns == {"c1", "c3"}
TypingPayloads == {GroupPayload, EmptyPayload, DmPayload(2)}

NextTyping ==
    \E c \in TypingConns :
        \/ handleJoinRoom_verify(c, GroupPayload)
        \/ handleJoinRoom_track(c)
        \/ \E payload \in TypingPayloads, isTyping \in BOOLEAN :
                handleTyping_getRoomId(c, payload, isTyping)
        \/ handleTyping_reject(c)
        \/ handleTyping_setex(c)

SpecTyping == InitRooms /\ [][NextTyping]_vars

\* the same sockets, which also leave the rooms they joined
NextDepart ==
    \/ NextTyping
    \/ \E c \in TypingConns :
        \E roomId \in socketRooms[c] : handleLeaveRoom(c, roomId)

SpecDepart == InitRooms /\ [][NextDepart]_vars

\* C1: no two sessions of the same user are active at once in WARM, in any
\* interleaving of session:start and session:end.
AtMostOneActiveSession ==
    \A i, j \in DOMAIN sessions :
        (i # j /\ sessions[i].userId = sessions[j].userId)
            => ~(sessions[i].isActive /\ sessions[j].isActive)

(***************************************************************************)
(* Claims about the friend fan-out (SpecFanout)                             *)
(***************************************************************************)
UpdateFramesOf(d) == {f \in inbox[d] : f.type = "location:update"}

\* C2 as stated: every location:update frame carrying user X's position that
\* was emitted to a connection of user Y was emitted while an ACCEPTED
\* friendship between X and Y existed in WARM.
C2_AcceptedWhenEmitted ==
    \A d \in Conns : \A f \in UpdateFramesOf(d) : f.accepted

\* C2 as amended: every location:update frame carrying user X's position that
\* was emitted to a connection of user Y belongs to a ping whose friendships
\* query found an ACCEPTED friendship between X and Y in WARM.
C2_AcceptedWhenQueried ==
    \A d \in Conns : \A f \in UpdateFramesOf(d) :
        f.userId # ConnUser[d] /\ f.acceptedAtQuery

\* a location:update frame reached a friend's connection, and one was emitted
\* after the friendship it rests on had been withdrawn
C2_Witness ==
    /\ \E d \in Conns : \E f \in UpdateFramesOf(d) : f.accepted
    /\ \E d \in Conns : \E f \in UpdateFramesOf(d) : ~f.accepted

(***************************************************************************)
(* Claims about the ping throttle (SpecThrottle)                            *)
(***************************************************************************)
\* the latest arrival on the connection that was not throttled
\* C3: every chat:message frame that reached a connection was delivered while
\* the user of the connection had access to the room of the message: was a
\* member of the group, or was joined to the other party of the direct
\* message by an accepted friendship.
C3_DeliveredWithAccess ==
    \A d \in Conns : \A f \in inbox[d] :
        f.type = "chat:message" => f.access

\* C4: a chat:send of a user without access to the target room inserts no
\* message (no send is past its insert without access) and is acknowledged
\* {success: false}.
C4_DeniedSend ==
    \A c \in Conns :
        /\ local[c].op = "chat:send" => local[c].access
        /\ (ack[c].op = "chat:send" /\ ~ ack[c].access) => ~ ack[c].success

\* C5: a chat:history of a user without access to the requested room is
\* acknowledged {success: false}, whether the HOT list or WARM would answer.
C5_DeniedHistory ==
    \A c \in Conns :
        (ack[c].op = "chat:history" /\ ~ ack[c].access) => ~ ack[c].success

LastAccepted(log) ==
    IF log.t # Nothing /\ ~log.throttled THEN log.t ELSE log.prevAccepted

\* C6 as stated: of any two location:ping frames on a connection that arrive
\* at t1 < t2 with t2 - t1 < 1000 ms, the second is acknowledged throttled.
C6_AnyTwoPings ==
    \A c \in Conns :
        (/\ pingLog[c].prev # Nothing
         /\ pingLog[c].prev[1] < pingLog[c].t[1]
         /\ pingLog[c].t[1] - pingLog[c].prev[1] < 1000)
            => pingLog[c].throttled

\* C6 as amended: a location:ping frame that arrives at t2 on a connection
\* whose latest non-throttled ping arrived at t1 < t2 with t2 - t1 < 1000 ms is
\* acknowledged {success: false, throttled: true} and writes nothing: the geo
\* index, the location hash, the job queue and WARM are unchanged and no
\* handler is left running.
C6_ThrottledAfterAccepted ==
    [][\A c \in Conns :
        (/\ pingLog'[c] # pingLog[c]
         /\ LastAccepted(pingLog[c]) # Nothing
         /\ LastAccepted(pingLog[c])[1] < now
         /\ now - LastAccepted(pingLog[c])[1] < 1000)
            => /\ ack'[c] = [op |-> "location:ping", success |-> FALSE,
                             throttled |-> TRUE]
               /\ pc'[c] = "idle"
               /\ UNCHANGED << geo, locHash, queue, sessions, lastPingTimestamps >>]_vars

\* a ping was throttled less than 1000 ms after an accepted ping of the same
\* connection, and a later ping of that connection was accepted again
C6_Witness ==
    \E c \in Conns :
        /\ pingLog[c].throttled
        /\ pingLog[c].prevAccepted # Nothing
        /\ pingLog[c].prevAccepted[1] < pingLog[c].t[1]
        /\ pingLog[c].t[1] - pingLog[c].prevAccepted[1] < 1000
        /\ queue # << >>

\* C7: when a chat:send completes, the HOT list of its room holds at most 50
\* entries, whatever other chat:send and chat:history requests on the room
\* are in progress.
C7_BoundAfterSend ==
    [][\A c \in Conns :
        (pc[c] = "send_emit" /\ pc'[c] = "idle")
            => Len(cache'[local[c].roomId]) <= 50]_vars

\* C8: when a chat:send completes with messageId m, and no other chat:send
\* has pushed onto the list of the room since m was pushed nor is in progress,
\* a chat:history for the room served at once answers a list whose first
\* element is m.
C8_HeadAfterSend ==
    [][\A c \in Conns :
        (/\ pc[c] = "send_emit" /\ pc'[c] = "idle"
         /\ pushLog[local[c].roomId] = Just(local[c].id)
         /\ \A d \in Conns \ {c} : local[d].op # "chat:send")
            => \A limit \in CacheLimits, lowIdFirst \in BOOLEAN :
                LET answer == getRecentMessages(cache', messages',
                                    local[c].payload.groupId, ConnUser[c],
                                    local[c].payload.recipientId, limit,
                                    lowIdFirst)
                IN Len(answer) > 0 /\ answer[1].id = local[c].id]_vars

\* C9: a chat:history answered from WARM (the HOT list was empty) with limit
\* L answers the min(L, n) newest messages of the room oldest first, newest
\* last.
C9_WarmHistoryChronological ==
    \A c \in Conns :
        (ack[c].op = "chat:history" /\ ack[c].success /\ ack[c].fromWarm # Nothing)
            => LET newest == ack[c].fromWarm[1]
               IN ack[c].messages =
                    [i \in 1 .. Len(newest) |-> CacheEntry(Reverse(newest)[i])]

\* the readBy of every message names no user twice
NoDuplicateReaders ==
    \A i \in DOMAIN messages : \A k, l \in DOMAIN messages[i].readBy :
        messages[i].readBy[k] = messages[i].readBy[l] => k = l

\* C10: a chat:read of a user for a message that the user has applied before
\* leaves every readBy as it was, and no readBy ever names a user twice.
C10_ReadIdempotent ==
    [][/\ \A messageId \in ReadMessageIds, userId \in Users :
            (/\ Applications(messageId, userId) >= 1
             /\ Applications(messageId, userId)' = Applications(messageId, userId) + 1)
                => messages' = messages
       /\ NoDuplicateReaders']_vars

\* a user has applied chat:read twice to a stored message and is in its readBy
C10_Witness ==
    \E i \in DOMAIN messages, userId \in Users :
        /\ Applications(messages[i].id, userId) >= 2
        /\ \E k \in DOMAIN messages[i].readBy : messages[i].readBy[k] = userId

\* dm:{min(a,b)}_{max(a,b)}
DmRoom(a, b) ==
    "dm:" \o ToString(IF a < b THEN a ELSE b) \o "_"
          \o ToString(IF a < b THEN b ELSE a)

\* a join or a send of the connection has resolved its room
Resolved(c) == local[c].op \in {"chat:join", "chat:send"}

\* C11: the room resolved for a direct message between two distinct users is
\* dm:{min(a,b)}_{max(a,b)}, the same whichever of the two names the other as
\* recipient; the room resolved for a group is group:{groupId}.
C11_CanonicalRoom ==
    /\ \A c \in Conns : Resolved(c) =>
        LET payload == local[c].payload IN
            /\ payload.groupId # Nothing
                => local[c].roomId = "group:" \o payload.groupId[1]
            /\ (payload.groupId = Nothing /\ payload.recipientId # Nothing
                    /\ payload.recipientId[1] # ConnUser[c])
                => local[c].roomId = DmRoom(ConnUser[c], payload.recipientId[1])
    /\ \A c, d \in Conns :
        (/\ Resolved(c) /\ Resolved(d)
         /\ ConnUser[c] # ConnUser[d]
         /\ local[c].payload = DmPayload(ConnUser[d])
         /\ local[d].payload = DmPayload(ConnUser[c]))
            => local[c].roomId = local[d].roomId

\* user 2 has resolved the room of a direct message to user 1 while user 1
\* has resolved the room of a direct message to user 2
C11_Witness ==
    \E c, d \in Conns :
        /\ Resolved(c) /\ Resolved(d)
        /\ ConnUser[c] = 2 /\ ConnUser[d] = 1
        /\ local[c].payload = DmPayload(1)
        /\ local[d].payload = DmPayload(2)

\* the location:proximity frames that reached a connection
ProximityFramesOf(d) == {f \in inbox[d] : f.type = "location:proximity"}

\* C12: every location:proximity frame sits on the connection whose ping
\* produced it, names a friend other than the pinger who was an accepted
\* friend when that ping queried the friendships, and carries the distance
\* computed between the friend's position and the ping position, which is
\* strictly less than 100 m.
C12_ProximityToPinger ==
    \A d \in Conns : \A f \in ProximityFramesOf(d) :
        /\ f.pinger = d
        /\ f.friendId # ConnUser[d]
        /\ f.acceptedAtQuery
        /\ f.distance = Distance(f.position, f.pingPosition)
        /\ f.distance < 100

\* a ping at 99 m from an accepted friend has alerted its own connection, and
\* the friend's connections hold no alert
C12_Witness ==
    \E d \in Conns : \E f \in ProximityFramesOf(d) :
        /\ f.distance = 99
        /\ \A e \in connections[f.friendId] : ProximityFramesOf(e) = {}

\* the user is a member of the group named, or an accepted friend of the
\* recipient named
HasAccess(userId, payload) ==
    IF payload.groupId # Nothing THEN userId \in groupMembers[payload.groupId[1]]
    ELSE /\ payload.recipientId # Nothing
         /\ payload.recipientId[1] \in AcceptedFriendsOf(userId)

\* C13: a chat:join of a user without access to the room is acknowledged
\* {success: false} at once and leaves the sockets of every room,
\* user:{userId}:rooms and room:{roomId}:members as they were; a connection
\* enters a room only in a join that went past the access check.
C13_DeniedJoin ==
    [][\A c \in Conns :
        /\ \A payload \in AccessPayloads :
            (handleJoinRoom_verify(c, payload) /\ ~ HasAccess(ConnUser[c], payload))
                => /\ ack'[c] = [op |-> "chat:join", success |-> FALSE]
                   /\ pc'[c] = "idle"
                   /\ UNCHANGED << socketRooms, userRooms, roomMembers >>
        /\ ~ (socketRooms'[c] \subseteq socketRooms[c]) => pc[c] = "join_track"]_vars

\* user 3, not a member of the group, has been refused and is in no room,
\* while a member has joined
C13_Witness ==
    /\ ack["c4"] = [op |-> "chat:join", success |-> FALSE]
    /\ 3 \notin groupMembers["g1"]
    /\ socketRooms["c4"] = {}
    /\ userRooms[3] = {}
    /\ "group:g1" \in socketRooms["c3"]

\* no handler of a connection of the user is between two of its steps
Quiet(userId) == \A c \in Conns : ConnUser[c] = userId => pc[c] = "idle"

\* C14: whenever no operation of a user's connections is in progress, the
\* user is a member of geo:users exactly if location:{userId} exists.
C14_GeoAndHashTogether ==
    \A userId \in Users :
        Quiet(userId) => (geo[userId] = Nothing <=> locHash[userId] = Nothing)

\* a session has an endTime exactly if it is not active
EndTimeIffActive ==
    \A i \in DOMAIN sessions : sessions[i].endTime = Nothing <=> sessions[i].isActive

\* the steps in which a session:end of the connection returns its summary
EndReturns(c) == pc[c] = "end_del" /\ pc'[c] = "idle"

OwnSession(userId, sessionId) ==
    \E i \in DOMAIN sessions :
        sessions[i].id = sessionId /\ sessions[i].userId = userId

\* C16: a session:end naming a session that does not exist or belongs to
\* another user is acknowledged {success: false} and changes nothing: no
\* session row and no hot presence is touched, and a session row is only ever
\* modified by a session:end of its owner.
C16_ForeignEndRejected ==
    [][/\ \A c \in Conns, sessionId \in PresenceSessionIds :
            endSession_find(c, sessionId) /\ ~ OwnSession(ConnUser[c], sessionId)
            => /\ ack'[c] = [op |-> "session:end", success |-> FALSE]
               /\ UNCHANGED << pc, local, sessions, locVars, connections, queue >>
       /\ \A i \in DOMAIN sessions :
            sessions'[i] # sessions[i]
            => \E c \in Conns : /\ pc[c] = "end_save"
                                /\ local[c].sessionId = sessions[i].id
                                /\ ConnUser[c] = sessions[i].userId]_vars

\* a session:end was refused while the caller had hot presence and an active
\* session, and both are still there
C16_Witness ==
    \E c \in Conns :
        /\ ack[c] = [op |-> "session:end", success |-> FALSE]
        /\ pc[c] = "idle"
        /\ geo[ConnUser[c]] # Nothing /\ locHash[ConnUser[c]] # Nothing
        /\ \A i \in DOMAIN sessions : sessions[i].isActive

\* the largest number of a non-empty set
SetMax(S) == CHOOSE x \in S : \A y \in S : y <= x

\* the speeds of all pings of the session in the batch
SpeedsOf(batch, sessionId) ==
    {batch[i].speed : i \in {j \in DOMAIN batch : batch[j].sessionId = sessionId}}

\* C17: when a flush updates a session, the session's maxSpeed becomes the
\* largest of its previous maxSpeed and the speeds of all pings of the
\* session in the batch, the first ping and single-ping groups included.
C17_MaxSpeedOverBatch ==
    [][\A f \in Flushers : updateSessionStats_update(f) =>
        \A i \in DOMAIN sessions :
            sessions[i].id = flush[f].session.id =>
                sessions'[i].maxSpeed =
                    SetMax({sessions[i].maxSpeed}
                           \cup SpeedsOf(flush[f].batch, sessions[i].id))]_vars

\* C18: when the enqueueing of the persistence job fails after the HOT update
\* of a ping, the ping is not failed: its handler goes on to the friend
\* fan-out (and so to its { success: true }).
C18_EnqueueFailureTolerated ==
    [][\A c \in Conns :
        pc[c] = "ping_enqueue" /\ pc'[c] # "ping_enqueue" /\ queue' = queue
        => pc'[c] = "ping_friendships"]_vars

\* the payload of a ping breaks a rule of validation: latitude outside
\* [-90, 90], longitude outside [-180, 180], negative accuracy, empty sessionId
Invalid(data) ==
    \/ data.position > 90 * METERS_PER_DEGREE
    \/ data.longitude < -180 \/ data.longitude > 180
    \/ data.accuracy < 0
    \/ data.sessionId = EmptySessionId

\* C19: a location:ping that is not throttled and whose payload is invalid is
\* acknowledged { success: false } at once, writes nothing to geo:users or
\* location:{userId}, and its handler ends without a persistence job.
C19_InvalidPingRejected ==
    [][\A c \in Conns, data \in ValidatePings :
        (/\ handleLocationPing_throttle(c, data)
         /\ ~ Throttled(now, LastPing(c))
         /\ Invalid(data))
        => /\ ack'[c] = [op |-> "location:ping", success |-> FALSE,
                         throttled |-> FALSE]
           /\ pc'[c] = "idle"
           /\ UNCHANGED << geo, locHash, queue >>]_vars

\* C20: a socket that presented no token or an invalid token is never open,
\* and no handler body runs for a socket without a verified user.
C20_NoUnverifiedConnection ==
    \A c \in Conns :
        /\ auth[c].open => auth[c].token = "valid"
        /\ auth[c].ran => auth[c].user # Nothing /\ auth[c].token = "valid"

\* C21: on a connection an acknowledgement is sent only for the oldest frame
\* still being handled: no acknowledgement leaves while the handler of an
\* earlier frame of the connection is suspended and stays suspended.
C21_AcksInArrivalOrder ==
    [][\A c \in Conns :
        ack'[c] # ack[c] => pc[c] = "idle" \/ pc'[c] = "idle"]_vars

\* C22: when the insert of session:start fails and the handler answers
\* { success: false }, the sessions of the user that were active when the
\* session:start began are active with no endTime, and connections:{userId}
\* is as it was.
C22_FailedStartChangesNothing ==
    [][\A c \in Conns :
        pc[c] = "start_save" /\ pc'[c] = "idle"
        => /\ ack'[c] = [op |-> "session:start", success |-> FALSE]
           /\ \A i \in local[c].closed :
                sessions'[i].isActive /\ sessions'[i].endTime = Nothing
           /\ connections' = connections]_vars

\* C23: no handler lets an exception escape: every event is answered by a
\* normal return of its handler.
C23_NoEscapedException ==
    \A c \in Conns : "escaped" \notin DOMAIN ack[c]

\* C24: the totalDistance and totalVertical of a session never decrease, and
\* each equals what the flushes have contributed to the session so far.
C24_AggregatesAddUp ==
    [][\A i \in DOMAIN sessions :
        /\ sessions'[i].totalDistance >= sessions[i].totalDistance
        /\ sessions'[i].totalVertical >= sessions[i].totalVertical
        /\ sessions'[i].totalDistance = sessions'[i].flushedDistance
        /\ sessions'[i].totalVertical = sessions'[i].flushedVertical]_vars

\* the user has an open socket with a verified user bound to it
Online(userId) ==
    \E c \in Conns :
        ConnUser[c] = userId /\ auth[c].open /\ auth[c].user # Nothing

\* C25: whenever no handler of a user's sockets is in progress,
\* connections:{userId} is non-empty exactly if the user has an open
\* authenticated socket.
C25_RegistryMatchesSockets ==
    \A userId \in Users :
        Quiet(userId) => (connections[userId] # {} <=> Online(userId))

\* C26: every message row has exactly one of groupId and recipientId.
C26_ExactlyOneTarget ==
    \A i \in DOMAIN messages :
        (messages[i].groupId = Nothing) # (messages[i].recipientId = Nothing)

\* the participants of the room of a message: the members of its group, or
\* the sender and the recipient of a direct message
Participants(message) ==
    IF message.groupId # Nothing THEN groupMembers[message.groupId[1]]
    ELSE {message.senderId} \cup {message.recipientId[i] :
                                    i \in DOMAIN message.recipientId}

\* C27: readBy of every message holds only participants of the message's
\* room.
C27_ReadersAreParticipants ==
    \A i \in DOMAIN messages :
        \A k \in DOMAIN messages[i].readBy :
            messages[i].readBy[k] \in Participants(messages[i])

\* the rows of location_pings that name the session and carry the user
PingsOf(sessionId, userId) ==
    {k \in DOMAIN locationPings :
        /\ locationPings[k].sessionId = sessionId
        /\ locationPings[k].userId = userId}

\* C28: every location_pings row names a session of the user who sent the
\* ping, and a session's aggregates are changed only by pings of its owner.
C28_PingsOfOwnSession ==
    \A i \in DOMAIN sessions :
        /\ \A userId \in Users \ {sessions[i].userId} :
            PingsOf(sessions[i].id, userId) = {}
        /\ PingsOf(sessions[i].id, sessions[i].userId) = {}
            => /\ sessions[i].totalDistance = 0
               /\ sessions[i].totalVertical = 0
               /\ sessions[i].maxSpeed = 0

\* C29: a throttled ping leaves lastPing alone and a non-throttled one sets
\* it to its arrival time; the first ping of a connection is not throttled,
\* and neither is a ping that arrives at least 1000 ms after the last
\* non-throttled ping of the connection.
C29_WindowAnchoredOnAccepted ==
    [][\A c \in Conns :
        pingLog'[c] # pingLog[c] =>
            /\ pingLog'[c].throttled
                => lastPingTimestamps'[c] = lastPingTimestamps[c]
            /\ ~ pingLog'[c].throttled => lastPingTimestamps'[c] = Just(now)
            /\ pingLog[c].t = Nothing => ~ pingLog'[c].throttled
            /\ (/\ LastAccepted(pingLog[c]) # Nothing
                /\ now - LastAccepted(pingLog[c])[1] >= 1000)
                    => ~ pingLog'[c].throttled]_vars

\* a ping was accepted, the next one came within the window and was
\* throttled, and the one after it, at least 1000 ms after the first and less
\* than 1000 ms after the second, has been accepted
C29_Witness ==
    \E c \in Conns :
        /\ pingLog[c].t # Nothing /\ ~ pingLog[c].throttled
        /\ pingLog[c].prev # Nothing /\ pingLog[c].prevAccepted # Nothing
        /\ pingLog[c].prevAccepted[1] < pingLog[c].prev[1]
        /\ pingLog[c].t[1] - pingLog[c].prev[1] < 1000
        /\ pingLog[c].t[1] - pingLog[c].prevAccepted[1] >= 1000
        /\ lastPingTimestamps[c] = pingLog[c].t

\* a step of handleDisconnect of the socket: its SREM, its SCARD or the ZREM
\* of handleUserDisconnect
DisconnectStep(c) ==
    \/ pc[c] = "idle" /\ pc'[c] = "disconnect_scard"
    \/ pc[c] \in {"disconnect_scard", "disconnect_zrem"} /\ pc'[c] # pc[c]

\* C30: no step of the handling of a disconnect changes a session row, be
\* the socket the user's last one or not.
C30_DisconnectKeepsSessions ==
    [][\A c \in Conns : DisconnectStep(c) => sessions' = sessions]_vars

\* the disconnect of the last socket of a user has been handled and the
\* user's session is still active, with no endTime
C30_Witness ==
    \E c \in Conns :
        /\ ack[c].op = "disconnect" /\ Quiet(ConnUser[c])
        /\ connections[ConnUser[c]] = {}
        /\ \E i \in DOMAIN sessions :
            /\ sessions[i].userId = ConnUser[c]
            /\ sessions[i].isActive /\ sessions[i].endTime = Nothing

\* C31: the handling of a disconnect removes the user from geo:users only
\* when no other socket of the user is registered in connections:{userId}.
C31_PresenceOfOpenSocketKept ==
    [][\A c \in Conns :
        (/\ pc[c] = "disconnect_zrem" /\ pc'[c] # pc[c]
         /\ connections[ConnUser[c]] # {})
            => geo'[ConnUser[c]] = geo[ConnUser[c]]]_vars

\* C32: a chat:leave takes the socket out of the room, deletes the user's
\* typing flag of the room and delivers chat:typing with isTyping = FALSE to
\* the sockets that stay in the room.
C32_LeaveEmitsTypingOff ==
    [][\A c \in Conns : \A roomId \in socketRooms[c] \ socketRooms'[c] :
        /\ << roomId, ConnUser[c] >> \notin typing'
        /\ \A d \in SocketsIn(roomId) \ {c} :
            [type |-> "chat:typing", userId |-> ConnUser[c],
             roomId |-> roomId, isTyping |-> FALSE] \in inbox'[d]]_vars

\* the sockets in the room of a message
MessageRoom(message) ==
    SocketsIn(getRoomId(message.groupId, message.senderId,
                        message.recipientId)[1])

\* C33: every chat:read that is applied to a message delivers a chat:read
\* frame with the messageId and the reader to the sockets in the room of the
\* message, group room or direct room.
C33_ReadBroadcastToRoom ==
    [][\A i \in DOMAIN messages : \A userId \in Users :
        LET k == << messages[i].id, userId >> IN
        (/\ k \in DOMAIN readCount'
         /\ k \in DOMAIN readCount => readCount'[k] # readCount[k])
            => \A d \in MessageRoom(messages[i]) :
                [type |-> "chat:read", messageId |-> messages[i].id,
                 userId |-> userId] \in inbox'[d]]_vars

\* how often a job occurs in a sequence of jobs
Count(job, jobs) == Cardinality({k \in DOMAIN jobs : jobs[k] = job})

\* the batch a running flush has spliced off and not yet inserted
Detached(run) == IF run.pc = "save" THEN run.batch ELSE << >>

\* the copies of a job that the persister holds: delivered and not yet
\* buffered, buffered, detached by a flush that has not inserted yet, or
\* inserted into location_pings
Kept(job, q, buffer, runs, rows) ==
    Count(job, q) + Count(job, buffer) + Count(job, rows)
        + Cardinality({p \in UNION {{<< f, k >> : k \in DOMAIN Detached(runs[f])} :
                                        f \in Flushers} :
                        Detached(runs[p[1]])[p[2]] = job})

\* a flush of the persister fails in this step
FlushFails(f) == flush[f].pc # "idle" /\ flush'[f] = NoFlush /\ batchBuffer' # batchBuffer

\* C34: a failed flush puts its batch back at the head of the buffer in its
\* order, ahead of what the buffer holds by then, and no step of the
\* persister drops a ping.
C34_FailedBatchBackAtHead ==
    [][/\ \A f \in Flushers :
            FlushFails(f) => batchBuffer' = flush[f].batch \o batchBuffer
       /\ \A job \in FlushJobs :
            Kept(job, queue', batchBuffer', flush', locationPings')
                >= Kept(job, queue, batchBuffer, flush, locationPings)]_vars

\* a flush has failed after its insert (the persister holds more copies than
\* jobs were delivered), and its batch is back at the head of the buffer,
\* ahead of a ping that is not in location_pings
C34_Witness ==
    /\ \A f \in Flushers : flush[f].pc = "idle"
    /\ Len(queue) + Len(batchBuffer) + Len(locationPings) > MaxJobs
    /\ Len(batchBuffer) >= 2
    /\ Count(batchBuffer[1], locationPings) > 0
    /\ Count(batchBuffer[Len(batchBuffer)], locationPings) = 0

\* pings with distinct capture timestamps, in ascending order of timestamp
SortByTimestamp(pings) ==
    [k \in 1 .. Len(pings) |->
        pings[CHOOSE i \in DOMAIN pings :
                Cardinality({j \in DOMAIN pings :
                    pings[j].timestamp < pings[i].timestamp}) = k - 1]]

\* C35: the distance and the vertical descent that a flush adds to a session
\* are those of the session's pings of the batch taken in ascending order of
\* capture timestamp.
C35_AggregatesInTimestampOrder ==
    [][\A f \in Flushers :
        (flush[f].pc = "update" /\ flush'[f] # flush[f]) =>
            LET session == flush[f].session
                sorted == SortByTimestamp(SessionPings(flush[f].batch, session.id))
            IN \A i \in DOMAIN sessions :
                sessions[i].id = session.id =>
                    /\ sessions'[i].flushedDistance - sessions[i].flushedDistance
                        = AdditionalDistance(sorted, 2)
                    /\ sessions'[i].flushedVertical - sessions[i].flushedVertical
                        = VerticalDescent(sorted, 2)]_vars

\* C36: when a chat:history that missed the cache has refilled it, the HOT
\* list of the room holds exactly the messages it read from WARM, each once,
\* newest at the head, and at most 50 of them.
C36_ListIsWhatWasRead ==
    [][\A c \in Conns :
        (pc[c] = "history_refill" /\ pc'[c] = "idle") =>
            LET found == local[c].messages IN
            /\ cache'[local[c].roomId] =
                [i \in 1 .. Len(found) |-> CacheEntry(found[i])]
            /\ Len(cache'[local[c].roomId]) <= MESSAGE_CACHE_SIZE]_vars

\* the list that holds the newest messages of the room stored in WARM, at
\* most 50 of them, newest first
Coherent(list, groupId) ==
    \E lowIdFirst \in BOOLEAN :
        LET newest == WarmQuery(messages, groupId, 1, Nothing,
                                MESSAGE_CACHE_SIZE, lowIdFirst)
        IN list = [i \in 1 .. Len(newest) |-> CacheEntry(newest[i])]

\* C37: whenever no request is in progress, a HOT list that is not empty
\* holds the min(50, n) newest of the n messages of its room in WARM.
C37_CacheCoherent ==
    (\A c \in Conns : pc[c] = "idle")
        => (cache[CacheRoom] # << >>
                => Coherent(cache[CacheRoom], Just("g1")))

\* C38: after a chat:send that was acknowledged { success: false }, neither
\* WARM nor a HOT list holds a message of that call.
C38_FailedSendLeavesNothing ==
    \A c \in Conns :
        (/\ ack[c].op = "chat:send" /\ ~ ack[c].success
         /\ "inserted" \in DOMAIN ack[c])
            => /\ \A i \in DOMAIN messages : messages[i].id # ack[c].inserted
               /\ \A r \in Rooms : \A k \in DOMAIN cache[r] :
                    cache[r][k].id # ack[c].inserted

\* the rows without their repetitions, in order of first insertion
Distinct(rows) ==
    LET first == {k \in DOMAIN rows : \A j \in 1 .. k - 1 : rows[j] # rows[k]}
    IN [n \in 1 .. Cardinality(first) |->
            rows[CHOOSE k \in first :
                    Cardinality({j \in first : j < k}) = n - 1]]

\* C39: location_pings holds no ping twice, and the distance and vertical
\* descent added to a session do not exceed those of its pings counted once.
C39_EachPingOnce ==
    /\ \A k, l \in DOMAIN locationPings :
        locationPings[k] = locationPings[l] => k = l
    /\ \A i \in DOMAIN sessions :
        LET once == Distinct(SessionPings(locationPings, sessions[i].id)) IN
        /\ sessions[i].flushedDistance <= AdditionalDistance(once, 2)
        /\ sessions[i].flushedVertical <= VerticalDescent(once, 2)

\* C40: every ping that process() has taken from the queue is eventually a
\* row of location_pings.
C40_DeliveredEventuallyInserted ==
    \A job \in RedoJobs :
        (Count(job, batchBuffer) > 0) ~> (Count(job, locationPings) > 0)

====
